---- MODULE Spec2Model ----
(***************************************************************************)
(* Screenshot worker: the message processor (handleMessage) of             *)
(* src/services/sqsConsumer.js together with the DynamoDB adapter, the S3  *)
(* key derivation and the SQS queue it runs against.                       *)
(*                                                                         *)
(* One request (RequestId) is followed through the queue.  Every await of  *)
(* handleMessage is one action, so concurrent invocations interleave       *)
(* exactly at the points where the JavaScript event loop (or another       *)
(* container) can run something else.  Time is in seconds.                 *)
(***************************************************************************)
EXTENDS Integers, Sequences, FiniteSets, TLC

\* ------------------------------------------------------------------ bounds
\* deliveries of the message that reach handleMessage over one behaviour, each
\* an invocation of its own (in whatever container)
MaxDeliveries == 2
\* clock steps of one visibility timeout each
MaxTicks == 3

\* calls of initBrowser that one run of the service makes, some of them
\* concurrent (SQS_BATCH_SIZE messages are handled at a time)
MaxCalls == 2
\* engines the run can launch
MaxEngines == 2
\* blanks before and after the URL of a message
MaxPad == 2
\* calls made on the DynamoDB adapter directly
MaxAdapterCalls == 3
\* calls of generateScreenshotKey that are compared with each other
MaxKeyCalls == 2
\* messages of different requests that one process handles at a time
BatchSize == 2
\* SIGTERM, SIGINT, uncaughtException and unhandledRejection events of one run
MaxSignals == 2

\* -------------------------------------------------------- program constants
\* async initBrowser(retries = 3)
retries == 3
\* config.screenshot.defaultWidth, defaultHeight
defaultWidth == 1920
defaultHeight == 1080
\* const maxRetries = 3 of the documented capture loop
maxRetries == 3
\* const maxProcessingTimeMs = 10 * 60 * 1000
maxProcessingTimeMs == 600000
\* SQS_VISIBILITY_TIMEOUT default, seconds
visibilityTimeout == 300
\* redrive policy of the queue
maxReceiveCount == 3
\* .substring(0, 50)
MaxSanitizedLen == 50
\* toISOString().split('T')[0] changes every 86400 s
SecondsPerDay == 86400

Handlers == 1..MaxDeliveries
\* the messages of one batch (SQS_BATCH_SIZE), each of a request of its own
Batch == 1..BatchSize
Calls == 1..MaxCalls

\* The clock advances in steps of one visibility timeout; the run starts two
\* steps before a UTC midnight, so uploads on one date and on two dates occur.
TickStep == visibilityTimeout
StartTime == SecondsPerDay - 2 * TickStep
EndTime == StartTime + MaxTicks * TickStep

\* A nullable value (JavaScript null / a missing attribute) is a set of at
\* most one element.
Null == {}
Some(v) == {v}

\* ------------------------------------------------------------ the message
\* body.requestId, body.url (a string is the sequence of its characters),
\* body.format
RequestId == "r1"
MessageUrl == <<"h", "t", "t", "p", "s", ":", "/", "/", "a", ".", "c", "o", "/", "x">>
MessageFormat == "png"
\* body.width, body.height: this message names a width and no height
MessageWidth == Some(1280)
MessageHeight == Null

\* error.message of the errors handleMessage can catch
DbErrorMessage == "DynamoDB error"
\* GetItem with a key that has no id
KeyErrorMessage == "The provided key element does not match the schema"
JsonErrorMessage == "Unexpected token in JSON"
UrlErrorMessage == "URL is required in message body"

\* message bodies: the enqueuer's, one that is not JSON, one without url, one
\* without requestId
Bodies == {"request", "notJson", "noUrl", "noRequestId"}

\* what JSON.parse and the url check throw, if they do
ParseError(b) ==
  IF b = "notJson" THEN Some(JsonErrorMessage)
  ELSE IF b = "noUrl" THEN Some(UrlErrorMessage)
  ELSE Null

\* screenshotId as the catch block sees it: assigned from body.requestId once
\* the url check has passed
ScreenshotId(b) == IF b = "request" THEN Some(RequestId) ELSE Null
UploadErrorMessage == "S3 upload failed"
RenderErrorMessages == {"Screenshot failed", ""}

VARIABLES
  now,          \* Date.now(), seconds
  table,        \* DynamoDB: id -> item, for the ids that have an item
  objects,      \* S3: the keys that hold an object
  msgState,     \* "queued", "deleted" or "dlq"
  visibleAt,    \* the message is hidden from receives until this time
  receiveCount, \* ApproximateReceiveCount of the message
  pc,           \* per invocation: the await it is suspended at
  existing,     \* per invocation: existingScreenshot.status, from the read
                \* until the claim write is issued
  err,          \* per invocation: the caught error's message, if any
  rejected,     \* the message of the error handleMessage last rejected with
  uploaded,     \* per invocation: uploadResult.key, once uploaded
  body,         \* message.Body, by what it holds
  \* one worker process (index.js) and the invocation it runs
  startPc,        \* startService: the await it is suspended at
  shutdownPc,     \* shutdown: the await it is suspended at
  isShuttingDown,
  consumer,       \* "null", "running" or "stopped"
  polling,        \* a ReceiveMessage call of the consumer is outstanding
  healthCheck,    \* the health server: "starting", "listening", "closed", "error"
  browser,        \* screenshotService.browser: "null", "launched", "closing"
  handlePc,       \* the process's handleMessage invocation, "none" if none
  pageOpen,       \* the page of the running captureScreenshot is open
  pageErr,        \* the error captureScreenshot caught, until it rethrows
  thrown,         \* the message of the error captureScreenshot rejected with
  exitCode,       \* process.exit(code), once called
  signals,        \* how many times shutdown(signal) has been called
  \* the ScreenshotService object and the calls of initBrowser / closeBrowser
  thisBrowser,    \* this.browser: null or an engine
  engines,        \* every engine launched so far: "running", "dead", "closed"
  initPc,         \* per call of initBrowser: the await it is suspended at
  attempt,        \* per call: i of the launch loop
  lastError,      \* per call: lastError
  target,         \* per call: the engine its pending version() was called on
  result,         \* per call: the value returned or the error thrown
  closePc,        \* closeBrowser: "idle", "closing" or "done"
  closeTarget,    \* the engine the pending close() was called on
  \* the URL of one message on its way to the page
  urlPc,          \* "idle", "queued", "capturing", "navigated" or "rejected"
  messageUrl,     \* body.url
  gotoUrl,        \* the first argument of page.goto
  \* calls made on DynamoDBService directly
  calls,          \* how many have been made
  lastCall,       \* the method and arguments of the last one
  callError,      \* error.name of what it threw, null if it returned
  \* calls of S3Service.generateScreenshotKey
  keyCalls,       \* the arguments, the time and the key returned, per call made
  \* one invocation of the createScreenshot Lambda handler
  createPc,       \* "idle", the await it is suspended at, or "responded"
  params,         \* url (normalized), format and timestamp of the request
  statusCode,     \* statusCode of the response
  sqsMessage,     \* the message the queue accepted: its url and requestId
  \* a batch of messages of different requests, handled in one process
  batchPc,        \* per message: the await its invocation is suspended at
  batchErr,       \* per message: the caught error's message, if any
  batchKey,       \* per message: uploadResult.key, once uploaded
  bucket          \* S3: key -> the request whose screenshot the object holds

procVars == <<startPc, shutdownPc, isShuttingDown, consumer, polling, healthCheck, browser,
              handlePc, pageOpen, pageErr, thrown, exitCode, signals>>

workVars == <<now, table, objects, msgState, visibleAt, receiveCount, pc, existing, err, uploaded,
              rejected, body>>

launchVars == <<thisBrowser, engines, initPc, attempt, lastError, target, result, closePc,
                closeTarget>>

urlVars == <<urlPc, messageUrl, gotoUrl>>

adapterVars == <<calls, lastCall, callError>>

keyVars == <<keyCalls>>

intakeVars == <<createPc, params, statusCode, sqsMessage>>

batchVars == <<batchPc, batchErr, batchKey, bucket>>

svcVars == <<launchVars, urlVars, adapterVars, keyVars, intakeVars, batchVars, batchVars>>

vars == <<workVars, procVars, svcVars>>

Active == {"get", "create", "claim", "render", "upload", "finalize", "catch"}
Finished == {"skipped", "completed", "nacked", "crashed"}

\* ------------------------------------------------------ DynamoDB adapter
Exists(t, id) == id \in DOMAIN t

\* v || null
OrNull(v) == IF v = Null \/ v = Some("") THEN Null ELSE v

\* variant: the PutCommand is sent without its ConditionExpression
SaveScreenshotResultUnconditional(t, id, item, onlyIfNotExists, time) ==
  [i \in DOMAIN t \cup {id} |->
     IF i = id
     THEN [status |-> item.status,
           s3Url |-> Null,
           s3Key |-> Null,
           errorMessage |-> Null,
           width |-> item.width,
           height |-> item.height,
           format |-> item.format,
           createdAt |-> Some(time),
           updatedAt |-> Some(time)]
     ELSE t[i]]

\* PutCommand: the whole item is replaced; with onlyIfNotExists the put is
\* conditional on attribute_not_exists(id).
SaveScreenshotResult(t, id, item, onlyIfNotExists, time) ==
  IF onlyIfNotExists /\ Exists(t, id)
  THEN t
  ELSE [i \in DOMAIN t \cup {id} |->
          IF i = id
          THEN [status |-> item.status,
                s3Url |-> Null,
                s3Key |-> Null,
                errorMessage |-> Null,
                width |-> item.width,
                height |-> item.height,
                format |-> item.format,
                createdAt |-> Some(time),
                updatedAt |-> Some(time)]
          ELSE t[i]]

\* variant: the update leaves errorMessage out of its SET expression
UpdateScreenshotStatusNoMessage(t, id, status, updates, time) ==
  [i \in DOMAIN t \cup {id} |->
     IF i = id
     THEN [status |-> status,
           s3Url |-> OrNull(updates.s3Url),
           s3Key |-> OrNull(updates.s3Key),
           errorMessage |-> Null,
           width |-> IF Exists(t, id) THEN t[id].width ELSE Null,
           height |-> IF Exists(t, id) THEN t[id].height ELSE Null,
           format |-> IF Exists(t, id) THEN t[id].format ELSE Null,
           createdAt |-> IF Exists(t, id) THEN t[id].createdAt ELSE Null,
           updatedAt |-> Some(time)]
     ELSE t[i]]

\* variant: s3Url and s3Key are SET only when the caller supplies them
UpdateScreenshotStatusKeepsKey(t, id, status, updates, time) ==
  [i \in DOMAIN t \cup {id} |->
     IF i = id
     THEN [status |-> status,
           s3Url |-> IF OrNull(updates.s3Url) = Null /\ Exists(t, id)
                     THEN t[id].s3Url ELSE OrNull(updates.s3Url),
           s3Key |-> IF OrNull(updates.s3Key) = Null /\ Exists(t, id)
                     THEN t[id].s3Key ELSE OrNull(updates.s3Key),
           errorMessage |-> OrNull(updates.errorMessage),
           width |-> IF Exists(t, id) THEN t[id].width ELSE Null,
           height |-> IF Exists(t, id) THEN t[id].height ELSE Null,
           format |-> IF Exists(t, id) THEN t[id].format ELSE Null,
           createdAt |-> IF Exists(t, id) THEN t[id].createdAt ELSE Null,
           updatedAt |-> Some(time)]
     ELSE t[i]]

\* variant: updatedAt is SET only when the item is created by the update
UpdateScreenshotStatusKeepsTime(t, id, status, updates, time) ==
  [i \in DOMAIN t \cup {id} |->
     IF i = id
     THEN [status |-> status,
           s3Url |-> OrNull(updates.s3Url),
           s3Key |-> OrNull(updates.s3Key),
           errorMessage |-> OrNull(updates.errorMessage),
           width |-> IF Exists(t, id) THEN t[id].width ELSE Null,
           height |-> IF Exists(t, id) THEN t[id].height ELSE Null,
           format |-> IF Exists(t, id) THEN t[id].format ELSE Null,
           createdAt |-> IF Exists(t, id) THEN t[id].createdAt ELSE Null,
           updatedAt |-> IF Exists(t, id) THEN t[id].updatedAt ELSE Some(time)]
     ELSE t[i]]

\* UpdateCommand: SET status, updatedAt, s3Url, s3Key, errorMessage; no
\* condition; an item that does not exist is created with these attributes
\* only (no createdAt). Other keys of `updates` are not read.
UpdateScreenshotStatus(t, id, status, updates, time) ==
  [i \in DOMAIN t \cup {id} |->
     IF i = id
     THEN [status |-> status,
           s3Url |-> OrNull(updates.s3Url),
           s3Key |-> OrNull(updates.s3Key),
           errorMessage |-> OrNull(updates.errorMessage),
           width |-> IF Exists(t, id) THEN t[id].width ELSE Null,
           height |-> IF Exists(t, id) THEN t[id].height ELSE Null,
           format |-> IF Exists(t, id) THEN t[id].format ELSE Null,
           createdAt |-> IF Exists(t, id) THEN t[id].createdAt ELSE Null,
           updatedAt |-> Some(time)]
     ELSE t[i]]

\* v || d
OrDefault(v, d) == IF v = Null THEN Some(d) ELSE v

\* { status: 'processing', width: width || defaultWidth, height: height ||
\* defaultHeight, format }, as the enqueuer and the fallback create pass it
ProcessingItem ==
  [status |-> "processing",
   width |-> OrDefault(MessageWidth, defaultWidth),
   height |-> OrDefault(MessageHeight, defaultHeight),
   format |-> Some(MessageFormat)]

\* { width: width || defaultWidth, height: height || defaultHeight, format }:
\* the updates of the claim write; it names no s3Url, s3Key or errorMessage
ClaimUpdates ==
  [s3Url |-> Null, s3Key |-> Null, errorMessage |-> Null,
   width |-> OrDefault(MessageWidth, defaultWidth),
   height |-> OrDefault(MessageHeight, defaultHeight),
   format |-> Some(MessageFormat)]

\* ----------------------------------------------------------- S3 adapter
Alnum ==
  {"a", "b", "c", "d", "e", "f", "g", "h", "i", "j", "k", "l", "m", "n", "o", "p", "q",
   "r", "s", "t", "u", "v", "w", "x", "y", "z",
   "A", "B", "C", "D", "E", "F", "G", "H", "I", "J", "K", "L", "M", "N", "O", "P", "Q",
   "R", "S", "T", "U", "V", "W", "X", "Y", "Z",
   "0", "1", "2", "3", "4", "5", "6", "7", "8", "9"}

Http == <<"h", "t", "t", "p", ":", "/", "/">>
Https == <<"h", "t", "t", "p", "s", ":", "/", "/">>

MatchAt(s, i, p) == i + Len(p) - 1 <= Len(s) /\ SubSeq(s, i, i + Len(p) - 1) = p

\* .replace(/https?:\/\//, ''): the leftmost match, wherever it is
StripScheme(s) ==
  LET hits == {i \in 1..Len(s) : MatchAt(s, i, Http) \/ MatchAt(s, i, Https)}
  IN IF hits = {} THEN s
     ELSE LET i == CHOOSE j \in hits : \A k \in hits : j <= k
              n == IF MatchAt(s, i, Https) THEN Len(Https) ELSE Len(Http)
          IN SubSeq(s, 1, i - 1) \o SubSeq(s, i + n, Len(s))

\* .replace(/[^a-zA-Z0-9]/g, '_')
ReplaceNonAlnum(s) == [i \in 1..Len(s) |-> IF s[i] \in Alnum THEN s[i] ELSE "_"]

\* .substring(0, 50)
Truncate(s) == SubSeq(s, 1, IF Len(s) < MaxSanitizedLen THEN Len(s) ELSE MaxSanitizedLen)

SanitizeUrl(url) == Truncate(ReplaceNonAlnum(StripScheme(url)))

\* new Date().toISOString().split('T')[0]: the UTC day of `time`
UtcDate(time) == time \div SecondsPerDay

\* variant: the file name carries the upload instant
GenerateScreenshotKeyWithInstant(url, screenshotId, format, time) ==
  <<"screenshots/", UtcDate(time), screenshotId, SanitizeUrl(url), format, time>>

\* variant: the file name is the sanitized URL alone
GenerateScreenshotKeyWithoutId(url, screenshotId, format, time) ==
  <<"screenshots/", UtcDate(time), <<>>, SanitizeUrl(url), format>>

\* `${prefix}${date}/${screenshotId}_${sanitizedUrl}.${format}`
GenerateScreenshotKey(url, screenshotId, format, time) ==
  <<"screenshots/", UtcDate(time), screenshotId, SanitizeUrl(url), format>>

\* `https://${bucket}.s3.${region}.amazonaws.com/${key}`
S3Url(key) == <<"https://bucket.s3.region.amazonaws.com/", key>>

\* --------------------------------------------------------------- handler
\* variant: a claim is stale from exactly maxProcessingTimeMs on
IsStaleAtLimit(item, time) ==
  LET started == IF item.updatedAt # Null THEN item.updatedAt ELSE item.createdAt
  IN \E s \in started : (time - s) * 1000 >= maxProcessingTimeMs

\* variant: the duration is taken in seconds and compared with milliseconds
IsStaleInSeconds(item, time) ==
  LET started == IF item.updatedAt # Null THEN item.updatedAt ELSE item.createdAt
  IN \E s \in started : (time - s) > maxProcessingTimeMs

\* variant: the duration is measured from createdAt || updatedAt
IsStaleSinceCreated(item, time) ==
  LET started == IF item.createdAt # Null THEN item.createdAt ELSE item.updatedAt
  IN \E s \in started : (time - s) * 1000 > maxProcessingTimeMs

\* processingDurationMs > maxProcessingTimeMs, measured from
\* updatedAt || createdAt
IsStale(item, time) ==
  LET started == IF item.updatedAt # Null THEN item.updatedAt ELSE item.createdAt
  IN \E s \in started : (time - s) * 1000 > maxProcessingTimeMs

\* variant: a record still waiting for a consumer is skipped as well
SkipsOnReadWaiting(item, time) ==
  \/ item.status \in {"success", "processing"}
  \/ item.status = "consumerProcessing" /\ ~IsStale(item, time)

\* variant: a failed record is skipped as well
SkipsOnReadFailed(item, time) ==
  \/ item.status \in {"success", "failed"}
  \/ item.status = "consumerProcessing" /\ ~IsStale(item, time)

\* the two early returns of handleMessage
SkipsOnRead(item, time) ==
  \/ item.status = "success"
  \/ item.status = "consumerProcessing" /\ ~IsStale(item, time)

EmptyTable == [i \in {} |-> Null]

\* index.js has been loaded: startService() has run up to
\* await healthCheckService.start()
ProcInit ==
  /\ startPc = "healthStart"
  /\ shutdownPc = "idle"
  /\ isShuttingDown = FALSE
  /\ consumer = "null"
  /\ polling = FALSE
  /\ healthCheck = "starting"
  /\ browser = "null"
  /\ handlePc = "none"
  /\ pageOpen = FALSE
  /\ pageErr = Null
  /\ thrown = Null
  /\ exitCode = Null
  /\ signals = 0

\* new ScreenshotService(): this.browser = null; nothing has been called
LaunchInit ==
  /\ thisBrowser = Null
  /\ engines = <<>>
  /\ initPc = [c \in Calls |-> "idle"]
  /\ attempt = [c \in Calls |-> 0]
  /\ lastError = [c \in Calls |-> Null]
  /\ target = [c \in Calls |-> Null]
  /\ result = [c \in Calls |-> Null]
  /\ closePc = "idle"
  /\ closeTarget = Null

\* no call has been made on the adapter
AdapterInit ==
  /\ calls = 0
  /\ lastCall = [op |-> "none", status |-> "none", onlyIfNotExists |-> FALSE]
  /\ callError = Null

\* generateScreenshotKey has not been called
KeyInit == keyCalls = {}

\* the Lambda handler has not been invoked
IntakeInit ==
  /\ createPc = "idle"
  /\ params = Null
  /\ statusCode = Null
  /\ sqsMessage = Null

\* no message of the batch has been sent
BatchInit ==
  /\ batchPc = [m \in Batch |-> "idle"]
  /\ batchErr = [m \in Batch |-> Null]
  /\ batchKey = [m \in Batch |-> Null]
  /\ bucket = <<>>

\* no message has been sent
UrlInit ==
  /\ urlPc = "idle"
  /\ messageUrl = Null
  /\ gotoUrl = Null

\* the message is in the queue, the bucket is empty, no invocation has
\* started, the worker process and its services are as constructed
WorkerInit ==
  /\ now = StartTime
  /\ objects = {}
  /\ msgState = "queued"
  /\ visibleAt = StartTime
  /\ receiveCount = 0
  /\ pc = [h \in Handlers |-> "idle"]
  /\ existing = [h \in Handlers |-> Null]
  /\ err = [h \in Handlers |-> Null]
  /\ uploaded = [h \in Handlers |-> Null]
  /\ rejected = Null
  /\ ProcInit
  /\ LaunchInit
  /\ UrlInit
  /\ AdapterInit
  /\ KeyInit
  /\ IntakeInit
  /\ BatchInit

\* The enqueuer writes the 'processing' item before it sends the message (the
\* newer path) or leaves the item to the consumer (the older path).
Init ==
  /\ table \in {EmptyTable,
                SaveScreenshotResult(EmptyTable, RequestId, ProcessingItem, FALSE,
                                     StartTime)}
  /\ body \in Bodies
  /\ WorkerInit

\* each adapter method sends its command once: await
\* dynamoDBDocClient.send(command), and rethrows what it catches
SendsPerCall == 1

\* handleMessage awaits captureScreenshot({...}) once, outside any loop
CapturesPerInvocation == 1

\* ----------------------------------------------------------------- queue
\* sqs-consumer deletes the message when handleMessage resolves
Ack == IF msgState = "queued" THEN "deleted" ELSE msgState

NextDelivery(h) == pc[h] = "idle" /\ \A g \in Handlers : g < h => pc[g] # "idle"

\* handleMessage up to its first await: JSON.parse and the url check throw
\* into the catch block, which writes nothing while screenshotId is null and
\* rethrows; otherwise getScreenshot(screenshotId) is called
Enter(h) ==
  IF ParseError(body) # Null
  THEN pc' = [pc EXCEPT ![h] = "nacked"] /\ rejected' = ParseError(body)
  ELSE pc' = [pc EXCEPT ![h] = "get"] /\ UNCHANGED rejected

\* ReceiveMessage of a visible message: it is hidden for visibilityTimeout
Receive(h) ==
  /\ msgState = "queued"
  /\ now >= visibleAt
  /\ receiveCount < maxReceiveCount
  /\ NextDelivery(h)
  /\ receiveCount' = receiveCount + 1
  /\ visibleAt' = now + visibilityTimeout
  /\ Enter(h)
  /\ UNCHANGED <<procVars, svcVars, body, existing, now, table, objects, msgState, err,
                 uploaded>>

\* a receive by a container that is killed before handleMessage runs: the
\* message is hidden and counted, nothing else happens
ReceiveAndDie ==
  /\ msgState = "queued"
  /\ now >= visibleAt
  /\ receiveCount < maxReceiveCount
  /\ receiveCount' = receiveCount + 1
  /\ visibleAt' = now + visibilityTimeout
  /\ UNCHANGED <<procVars, svcVars, rejected, body, existing, now, table, objects, msgState,
                 pc, err, uploaded>>

\* at-least-once delivery: a copy of the in-flight message reaches another
\* invocation
DuplicateReceive(h) ==
  /\ msgState = "queued"
  /\ receiveCount >= 1
  /\ now < visibleAt
  /\ NextDelivery(h)
  /\ Enter(h)
  /\ UNCHANGED <<procVars, svcVars, body, existing, now, table, objects, msgState, visibleAt,
                 receiveCount, err, uploaded>>

\* redrive policy: after maxReceiveCount receives the queue moves the message
\* to the dead-letter queue instead of delivering it again
MoveToDLQ ==
  /\ msgState = "queued"
  /\ now >= visibleAt
  /\ receiveCount >= maxReceiveCount
  /\ msgState' = "dlq"
  /\ UNCHANGED <<procVars, svcVars, rejected, body, existing, now, table, objects, visibleAt,
                 receiveCount, pc, err, uploaded>>

\* ------------------------------------------------- handleMessage, by await
Throw(h, message) ==
  /\ err' = [err EXCEPT ![h] = Some(message)]
  /\ pc' = [pc EXCEPT ![h] = "catch"]

\* await getScreenshot(screenshotId), and the branches on what it returned
GetScreenshot(h, ok) ==
  /\ pc[h] = "get"
  /\ IF ScreenshotId(body) = Null
     THEN Throw(h, KeyErrorMessage) /\ UNCHANGED <<existing, msgState>>
     ELSE IF ~ok
     THEN Throw(h, DbErrorMessage) /\ UNCHANGED <<existing, msgState>>
     ELSE IF ~Exists(table, RequestId)
     THEN pc' = [pc EXCEPT ![h] = "create"] /\ UNCHANGED <<existing, err, msgState>>
     ELSE IF SkipsOnRead(table[RequestId], now)
     THEN /\ pc' = [pc EXCEPT ![h] = "skipped"]
          /\ msgState' = Ack
          /\ UNCHANGED <<existing, err>>
     ELSE /\ pc' = [pc EXCEPT ![h] = "claim"]
          /\ existing' = [existing EXCEPT ![h] = Some(table[RequestId].status)]
          /\ UNCHANGED <<err, msgState>>
  /\ UNCHANGED <<procVars, svcVars, rejected, body, now, table, objects, visibleAt,
                 receiveCount, uploaded>>

\* await saveScreenshotResult({... status: 'processing' ...}): no options
FallbackCreate(h, ok) ==
  /\ pc[h] = "create"
  /\ IF ok
     THEN /\ table' = SaveScreenshotResult(table, RequestId, ProcessingItem, FALSE, now)
          /\ pc' = [pc EXCEPT ![h] = "claim"]
          /\ UNCHANGED err
     ELSE Throw(h, DbErrorMessage) /\ UNCHANGED table
  /\ UNCHANGED <<procVars, svcVars, rejected, body, existing, now, objects, msgState,
                 visibleAt, receiveCount, uploaded>>

\* variant: the claim write is started but not awaited; the render begins
\* with the record as it was
ClaimNotAwaited(h, ok) ==
  /\ pc[h] = "claim"
  /\ existing' = [existing EXCEPT ![h] = Null]
  /\ pc' = [pc EXCEPT ![h] = "render"]
  /\ UNCHANGED <<procVars, svcVars, rejected, body, now, table, objects, msgState, visibleAt,
                 receiveCount, uploaded, err>>

\* await updateScreenshotStatus(screenshotId, 'consumerProcessing', {...})
Claim(h, ok) ==
  /\ pc[h] = "claim"
  /\ existing' = [existing EXCEPT ![h] = Null]
  /\ IF ok
     THEN /\ table' = UpdateScreenshotStatus(table, RequestId, "consumerProcessing",
                        ClaimUpdates, now)
          /\ pc' = [pc EXCEPT ![h] = "render"]
          /\ UNCHANGED err
     ELSE Throw(h, DbErrorMessage) /\ UNCHANGED table
  /\ UNCHANGED <<procVars, svcVars, rejected, body, now, objects, msgState, visibleAt,
                 receiveCount, uploaded>>

\* await captureScreenshot({...})
Render(h, failure) ==
  /\ pc[h] = "render"
  /\ IF failure = Null
     THEN pc' = [pc EXCEPT ![h] = "upload"] /\ UNCHANGED err
     ELSE \E m \in failure : Throw(h, m)
  /\ UNCHANGED <<procVars, svcVars, rejected, body, existing, now, table, objects, msgState,
                 visibleAt, receiveCount, uploaded>>

\* variant: uploadFile returns its result without the object being stored
UploadNotStored(h, ok) ==
  /\ pc[h] = "upload"
  /\ IF ok
     THEN LET s3Key == GenerateScreenshotKey(MessageUrl, RequestId, MessageFormat, now)
          IN /\ uploaded' = [uploaded EXCEPT ![h] = Some(s3Key)]
             /\ pc' = [pc EXCEPT ![h] = "finalize"]
             /\ UNCHANGED err
     ELSE Throw(h, UploadErrorMessage) /\ UNCHANGED uploaded
  /\ UNCHANGED <<procVars, svcVars, rejected, body, existing, now, table, msgState, visibleAt,
                 receiveCount, objects>>

\* generateScreenshotKey(url, screenshotId, format); await uploadFile(...)
Upload(h, ok) ==
  /\ pc[h] = "upload"
  /\ IF ok
     THEN LET s3Key == GenerateScreenshotKey(MessageUrl, RequestId, MessageFormat, now)
          IN /\ objects' = objects \cup {s3Key}
             /\ uploaded' = [uploaded EXCEPT ![h] = Some(s3Key)]
             /\ pc' = [pc EXCEPT ![h] = "finalize"]
             /\ UNCHANGED err
     ELSE Throw(h, UploadErrorMessage) /\ UNCHANGED <<objects, uploaded>>
  /\ UNCHANGED <<procVars, svcVars, rejected, body, existing, now, table, msgState, visibleAt,
                 receiveCount>>

\* await updateScreenshotStatus(screenshotId, 'success', {s3Url, s3Key});
\* handleMessage then resolves and the message is deleted
Finalize(h, ok) ==
  /\ pc[h] = "finalize"
  /\ IF ok
     THEN /\ table' = UpdateScreenshotStatus(table, RequestId, "success",
                        [s3Url |-> {S3Url(k) : k \in uploaded[h]}, s3Key |-> uploaded[h],
                         errorMessage |-> Null], now)
          /\ pc' = [pc EXCEPT ![h] = "completed"]
          /\ msgState' = Ack
          /\ UNCHANGED err
     ELSE Throw(h, DbErrorMessage) /\ UNCHANGED <<table, msgState>>
  /\ uploaded' = [uploaded EXCEPT ![h] = Null]
  /\ UNCHANGED <<procVars, svcVars, rejected, body, existing, now, objects, visibleAt,
                 receiveCount>>

\* variant: a failure of the 'failed' write replaces the error that is thrown
CatchMasking(h, ok) ==
  /\ pc[h] = "catch"
  /\ IF ok /\ ScreenshotId(body) # Null
     THEN table' = UpdateScreenshotStatus(table, RequestId, "failed",
                     [s3Url |-> Null, s3Key |-> Null,
                      errorMessage |-> err[h]], now)
     ELSE UNCHANGED table
  /\ pc' = [pc EXCEPT ![h] = "nacked"]
  /\ rejected' = (IF ok THEN err[h] ELSE Some(DbErrorMessage))
  /\ err' = [err EXCEPT ![h] = Null]
  /\ UNCHANGED <<procVars, svcVars, body, existing, now, objects, msgState, visibleAt,
                 receiveCount, uploaded>>

\* catch (error): if (screenshotId) try { await updateScreenshotStatus(id,
\* 'failed', {errorMessage}) } catch (dbError) { log }; throw error
Catch(h, ok) ==
  /\ pc[h] = "catch"
  /\ IF ok /\ ScreenshotId(body) # Null
     THEN table' = UpdateScreenshotStatus(table, RequestId, "failed",
                     [s3Url |-> Null, s3Key |-> Null,
                      errorMessage |-> err[h]], now)
     ELSE UNCHANGED table
  /\ pc' = [pc EXCEPT ![h] = "nacked"]
  /\ rejected' = err[h]
  /\ err' = [err EXCEPT ![h] = Null]
  /\ UNCHANGED <<procVars, svcVars, body, existing, now, objects, msgState, visibleAt,
                 receiveCount, uploaded>>

\* the container dies while the invocation is suspended
Crash(h) ==
  /\ pc[h] \in Active
  /\ pc' = [pc EXCEPT ![h] = "crashed"]
  /\ existing' = [existing EXCEPT ![h] = Null]
  /\ err' = [err EXCEPT ![h] = Null]
  /\ uploaded' = [uploaded EXCEPT ![h] = Null]
  /\ UNCHANGED <<procVars, svcVars, rejected, body, now, table, objects, msgState, visibleAt,
                 receiveCount>>

Tick ==
  /\ now < EndTime
  /\ now' = now + TickStep
  /\ UNCHANGED <<procVars, svcVars, rejected, body, existing, table, objects, msgState,
                 visibleAt, receiveCount, pc, err, uploaded>>

Next ==
  \/ \E h \in Handlers : Receive(h)
  \/ \E h \in Handlers : DuplicateReceive(h)
  \/ ReceiveAndDie
  \/ MoveToDLQ
  \/ \E h \in Handlers, ok \in BOOLEAN : GetScreenshot(h, ok)
  \/ \E h \in Handlers, ok \in BOOLEAN : FallbackCreate(h, ok)
  \/ \E h \in Handlers, ok \in BOOLEAN : Claim(h, ok)
  \/ \E h \in Handlers, f \in {Null} \cup {Some(m) : m \in RenderErrorMessages} : Render(h, f)
  \/ \E h \in Handlers, ok \in BOOLEAN : Upload(h, ok)
  \/ \E h \in Handlers, ok \in BOOLEAN : Finalize(h, ok)
  \/ \E h \in Handlers, ok \in BOOLEAN : Catch(h, ok)
  \/ \E h \in Handlers : Crash(h)
  \/ Tick

Spec == Init /\ [][Next]_vars

\* The steps of invocation h when no container dies and every record-store
\* call succeeds; the render and the upload may still fail.
HandlerStep(h) ==
  \/ GetScreenshot(h, TRUE)
  \/ FallbackCreate(h, TRUE)
  \/ Claim(h, TRUE)
  \/ \E f \in {Null} \cup {Some(m) : m \in RenderErrorMessages} : Render(h, f)
  \/ \E ok \in BOOLEAN : Upload(h, ok)
  \/ Finalize(h, TRUE)
  \/ Catch(h, TRUE)

NextNoFault ==
  \/ \E h \in Handlers : Receive(h)
  \/ \E h \in Handlers : DuplicateReceive(h)
  \/ \E h \in Handlers : HandlerStep(h)
  \/ Tick

\* Every await of a running invocation settles (the AWS calls return or
\* raise, the render has a timeout), so each invocation keeps taking steps.
\* Nothing obliges the queue to deliver again or the clock to advance.
LiveSpec == Init /\ [][NextNoFault]_vars /\ \A h \in Handlers : WF_vars(HandlerStep(h))

\* ------------------------------- deliveries that find the record claimed
\* instants at which the record was created or last updated
ClaimTimes == {StartTime - k * TickStep : k \in 0..2}

\* items getScreenshot can return for a claimed record: consumerProcessing,
\* with createdAt, updatedAt, both or neither
ClaimedItems ==
  {[status |-> "consumerProcessing", s3Url |-> Null, s3Key |-> Null,
    errorMessage |-> Null, width |-> ProcessingItem.width,
    height |-> ProcessingItem.height, format |-> ProcessingItem.format,
    createdAt |-> c, updatedAt |-> u] :
     c \in {Null} \cup {Some(t) : t \in ClaimTimes},
     u \in {Null} \cup {Some(t) : t \in ClaimTimes}}

\* the message of a request whose record another worker has claimed
StaleInit ==
  /\ table \in {[i \in {RequestId} |-> item] : item \in ClaimedItems}
  /\ body = "request"
  /\ WorkerInit

\* the steps of the deliveries of such a message, none of which finds the
\* record absent
StaleNext ==
  \/ \E h \in Handlers : Receive(h)
  \/ \E h \in Handlers : DuplicateReceive(h)
  \/ \E h \in Handlers, ok \in BOOLEAN : GetScreenshot(h, ok)
  \/ \E h \in Handlers, ok \in BOOLEAN : Claim(h, ok)
  \/ \E h \in Handlers, f \in {Null} \cup {Some(m) : m \in RenderErrorMessages} : Render(h, f)
  \/ \E h \in Handlers, ok \in BOOLEAN : Upload(h, ok)
  \/ \E h \in Handlers, ok \in BOOLEAN : Finalize(h, ok)
  \/ \E h \in Handlers, ok \in BOOLEAN : Catch(h, ok)
  \/ Tick

StaleSpec == StaleInit /\ [][StaleNext]_vars

\* ------------------------------------------------- worker process (index.js)
LaunchErrorMessage == "Failed to launch the browser process"
NewPageErrorMessage == "Protocol error (Target.createTarget): Target closed"
ViewportErrorMessage == "Viewport error"
NavigationErrorMessage == "Navigation failed"
CaptureErrorMessage == "Screenshot failed"
CloseErrorMessage == "Protocol error: Connection closed"

\* process.exit has not been called
Alive == exitCode = Null

\* the awaits inside captureScreenshot's try block, in order
PageSteps == <<"setViewport", "setUserAgent", "goto", "screenshot">>

PageStepError(step) ==
  IF step = "goto" THEN NavigationErrorMessage
  ELSE IF step = "screenshot" THEN CaptureErrorMessage
  ELSE ViewportErrorMessage

\* startService: await healthCheckService.start() settles, by the listen
\* callback or by the server's error event
HealthCheckStart(ok) ==
  /\ Alive
  /\ startPc = "healthStart"
  /\ healthCheck = "starting"
  /\ IF ok
     THEN /\ healthCheck' = "listening"
          /\ startPc' = "initBrowser"
          /\ UNCHANGED exitCode
     ELSE /\ healthCheck' = "error"
          /\ startPc' = "exited"
          /\ exitCode' = Some(1)
  /\ UNCHANGED <<workVars, svcVars, signals, shutdownPc, isShuttingDown, consumer, polling,
                 browser, handlePc, pageOpen, pageErr, thrown>>

\* variant: a failed launch is logged and the consumer is started anyway
StartConsumerRegardless(ok) ==
  /\ Alive
  /\ startPc = "initBrowser"
  /\ browser' = (IF ok THEN "launched" ELSE browser)
  /\ consumer' = "running"
  /\ polling' = TRUE
  /\ startPc' = "started"
  /\ UNCHANGED <<workVars, svcVars, signals, shutdownPc, isShuttingDown, healthCheck, handlePc,
                 pageOpen, pageErr, thrown, exitCode>>

\* startService: await screenshotService.initBrowser() settles; then
\* consumer = createConsumer(); consumer.start()
StartConsumer(ok) ==
  /\ Alive
  /\ startPc = "initBrowser"
  /\ IF ok
     THEN /\ browser' = "launched"
          /\ consumer' = "running"
          /\ polling' = TRUE
          /\ startPc' = "started"
          /\ UNCHANGED exitCode
     ELSE /\ startPc' = "exited"
          /\ exitCode' = Some(1)
          /\ UNCHANGED <<browser, consumer, polling>>
  /\ UNCHANGED <<workVars, svcVars, signals, shutdownPc, isShuttingDown, healthCheck, handlePc,
                 pageOpen, pageErr, thrown>>

\* variant: shutdown without its isShuttingDown guard
ShutdownUnguarded ==
  /\ Alive
  /\ signals < MaxSignals
  /\ signals' = signals + 1
  /\ isShuttingDown' = TRUE
  /\ consumer' = (IF consumer = "running" THEN "stopped" ELSE consumer)
  /\ shutdownPc' = "healthStop"
  /\ UNCHANGED <<workVars, svcVars, startPc, polling, healthCheck, browser, handlePc,
                 pageOpen, pageErr, thrown, exitCode>>

\* shutdown(signal), on SIGTERM, SIGINT, uncaughtException or
\* unhandledRejection: if (isShuttingDown) return; otherwise it runs up to
\* await healthCheckService.stop()
Shutdown ==
  /\ Alive
  /\ signals < MaxSignals
  /\ signals' = signals + 1
  /\ IF isShuttingDown
     THEN UNCHANGED <<isShuttingDown, consumer, shutdownPc>>
     ELSE /\ isShuttingDown' = TRUE
          /\ consumer' = (IF consumer = "running" THEN "stopped" ELSE consumer)
          /\ shutdownPc' = "healthStop"
  /\ UNCHANGED <<workVars, svcVars, startPc, polling, healthCheck, browser, handlePc,
                 pageOpen, pageErr, thrown, exitCode>>

\* shutdown: await healthCheckService.stop() resolves; closeBrowser() is
\* called and, when a handle is set, runs up to await this.browser.close()
HealthCheckStop ==
  /\ Alive
  /\ shutdownPc = "healthStop"
  /\ healthCheck' = "closed"
  /\ browser' = (IF browser = "launched" THEN "closing" ELSE browser)
  /\ shutdownPc' = "closeBrowser"
  /\ UNCHANGED <<workVars, svcVars, signals, startPc, isShuttingDown, consumer, polling,
                 handlePc, pageOpen, pageErr, thrown, exitCode>>

\* shutdown: await screenshotService.closeBrowser() settles, then
\* process.exit(0), or process.exit(1) from the catch block
CloseBrowser(ok) ==
  /\ Alive
  /\ shutdownPc = "closeBrowser"
  /\ ok \/ browser = "closing"
  /\ browser' = (IF ok /\ browser = "closing" THEN "null" ELSE browser)
  /\ exitCode' = (IF ok THEN Some(0) ELSE Some(1))
  /\ shutdownPc' = "done"
  /\ UNCHANGED <<workVars, svcVars, signals, startPc, isShuttingDown, consumer, polling,
                 healthCheck, handlePc, pageOpen, pageErr, thrown>>

\* the consumer's outstanding ReceiveMessage returns; a message it returns is
\* handed to handleMessage, an empty response is followed by the next poll
\* unless the consumer was stopped
Poll(message) ==
  /\ Alive
  /\ polling
  /\ IF message
     THEN handlePc' = "pre" /\ polling' = FALSE
     ELSE polling' = (consumer = "running") /\ UNCHANGED handlePc
  /\ UNCHANGED <<workVars, svcVars, signals, startPc, shutdownPc, isShuttingDown, consumer,
                 healthCheck, browser, pageOpen, pageErr, thrown, exitCode>>

\* handleMessage ends; the consumer polls again unless it was stopped
EndHandle ==
  /\ handlePc' = "none"
  /\ polling' = (consumer = "running")
  /\ thrown' = Null

\* handleMessage before the render: it returns or throws, or goes on to call
\* captureScreenshot, which runs up to await this.initBrowser()
BeforeCapture(renders) ==
  /\ Alive
  /\ handlePc = "pre"
  /\ IF renders
     THEN handlePc' = "initBrowser" /\ UNCHANGED <<polling, thrown>>
     ELSE EndHandle
  /\ UNCHANGED <<workVars, svcVars, signals, startPc, shutdownPc, isShuttingDown, consumer,
                 healthCheck, browser, pageOpen, pageErr, exitCode>>

\* captureScreenshot: await this.initBrowser() settles (a missing handle is
\* launched again); then browser.newPage() is called
InitBrowser(ok) ==
  /\ Alive
  /\ handlePc = "initBrowser"
  /\ IF ok
     THEN /\ browser' = (IF browser = "null" THEN "launched" ELSE browser)
          /\ handlePc' = "newPage"
          /\ UNCHANGED thrown
     ELSE /\ thrown' = Some(LaunchErrorMessage)
          /\ handlePc' = "post"
          /\ UNCHANGED browser
  /\ UNCHANGED <<workVars, svcVars, signals, startPc, shutdownPc, isShuttingDown, consumer,
                 polling, healthCheck, pageOpen, pageErr, exitCode>>

\* captureScreenshot: await browser.newPage() settles
NewPage(ok) ==
  /\ Alive
  /\ handlePc = "newPage"
  /\ IF ok
     THEN pageOpen' = TRUE /\ handlePc' = PageSteps[1] /\ UNCHANGED thrown
     ELSE thrown' = Some(NewPageErrorMessage) /\ handlePc' = "post" /\ UNCHANGED pageOpen
  /\ UNCHANGED <<workVars, svcVars, signals, startPc, shutdownPc, isShuttingDown, consumer,
                 polling, healthCheck, browser, pageErr, exitCode>>

\* captureScreenshot: one await of the try block settles; a rejection goes
\* through catch (log, rethrow) into finally, which calls page.close()
PageStep(ok) ==
  /\ Alive
  /\ \E i \in 1..Len(PageSteps) :
       /\ handlePc = PageSteps[i]
       /\ IF ok
          THEN /\ handlePc' = (IF i < Len(PageSteps) THEN PageSteps[i + 1] ELSE "close")
               /\ UNCHANGED pageErr
          ELSE /\ handlePc' = "close"
               /\ pageErr' = Some(PageStepError(PageSteps[i]))
  /\ UNCHANGED <<workVars, svcVars, signals, startPc, shutdownPc, isShuttingDown, consumer,
                 polling, healthCheck, browser, pageOpen, thrown, exitCode>>

\* captureScreenshot: finally { await page.close() } settles; a rejection of
\* close is what the function rejects with, otherwise the pending error is
\* rethrown or the screenshot returned
PageClose(ok) ==
  /\ Alive
  /\ handlePc = "close"
  /\ IF ok
     THEN pageOpen' = FALSE /\ thrown' = pageErr
     ELSE thrown' = Some(CloseErrorMessage) /\ UNCHANGED pageOpen
  /\ pageErr' = Null
  /\ handlePc' = "post"
  /\ UNCHANGED <<workVars, svcVars, signals, startPc, shutdownPc, isShuttingDown, consumer,
                 polling, healthCheck, browser, exitCode>>

\* handleMessage after captureScreenshot, to its end
AfterCapture ==
  /\ Alive
  /\ handlePc = "post"
  /\ EndHandle
  /\ UNCHANGED <<workVars, svcVars, signals, startPc, shutdownPc, isShuttingDown, consumer,
                 healthCheck, browser, pageOpen, pageErr, exitCode>>

ProcNext ==
  \/ \E ok \in BOOLEAN : HealthCheckStart(ok)
  \/ \E ok \in BOOLEAN : StartConsumer(ok)
  \/ Shutdown
  \/ HealthCheckStop
  \/ \E ok \in BOOLEAN : CloseBrowser(ok)
  \/ \E message \in BOOLEAN : Poll(message)
  \/ \E renders \in BOOLEAN : BeforeCapture(renders)
  \/ \E ok \in BOOLEAN : InitBrowser(ok)
  \/ \E ok \in BOOLEAN : NewPage(ok)
  \/ \E ok \in BOOLEAN : PageStep(ok)
  \/ \E ok \in BOOLEAN : PageClose(ok)
  \/ AfterCapture

ProcSpec == Init /\ [][ProcNext]_vars

\* ------------------------------------------ ScreenshotService.initBrowser
\* an engine answers version() only while it runs
Running(e) == \E k \in e : engines[k] = "running"

NextCall(c) == initPc[c] = "idle" /\ \A d \in Calls : d < c => initPc[d] # "idle"

\* error objects of the launch loop, told apart by what failed and in which
\* iteration
LaunchError(k) == <<"launch", k>>
VersionError(k) == <<"version", k>>

\* initBrowser() up to its first await: this.browser.version() when a handle
\* is set, puppeteer.launch(launchOptions) otherwise
InitBrowserCall(c) ==
  /\ NextCall(c)
  /\ IF thisBrowser # Null
     THEN initPc' = [initPc EXCEPT ![c] = "probe"] /\ target' = [target EXCEPT ![c] = thisBrowser]
     ELSE initPc' = [initPc EXCEPT ![c] = "launch"] /\ UNCHANGED target
  /\ UNCHANGED <<workVars, procVars, urlVars, adapterVars, keyVars, intakeVars, batchVars,
                 thisBrowser, engines, attempt, lastError, result, closePc, closeTarget>>

\* await this.browser.version() of the probe settles: return this.browser,
\* or (catch) this.browser = null and on to the launch loop
ProbeSettle(c, ok) ==
  /\ initPc[c] = "probe"
  /\ ok => Running(target[c])
  /\ IF ok
     THEN /\ result' = [result EXCEPT ![c] = thisBrowser]
          /\ initPc' = [initPc EXCEPT ![c] = "returned"]
          /\ UNCHANGED thisBrowser
     ELSE /\ thisBrowser' = Null
          /\ initPc' = [initPc EXCEPT ![c] = "launch"]
          /\ UNCHANGED result
  /\ target' = [target EXCEPT ![c] = Null]
  /\ UNCHANGED <<workVars, procVars, urlVars, adapterVars, keyVars, intakeVars, batchVars,
                 engines, attempt, lastError, closePc, closeTarget>>

\* await puppeteer.launch(launchOptions) settles: this.browser = the new
\* engine and this.browser.version() is called, or (catch) lastError = error
\* and the backoff timer is started
LaunchSettle(c, ok) ==
  /\ initPc[c] = "launch"
  /\ ok => Len(engines) < MaxEngines
  /\ IF ok
     THEN /\ engines' = Append(engines, "running")
          /\ thisBrowser' = Some(Len(engines) + 1)
          /\ target' = [target EXCEPT ![c] = Some(Len(engines) + 1)]
          /\ initPc' = [initPc EXCEPT ![c] = "test"]
          /\ UNCHANGED lastError
     ELSE /\ lastError' = [lastError EXCEPT ![c] = Some(LaunchError(attempt[c]))]
          /\ initPc' = [initPc EXCEPT ![c] = "backoff"]
          /\ UNCHANGED <<engines, thisBrowser, target>>
  /\ UNCHANGED <<workVars, procVars, urlVars, adapterVars, keyVars, intakeVars, batchVars,
                 attempt, result, closePc, closeTarget>>

\* await this.browser.version() of the launch loop settles: return
\* this.browser, or (catch) lastError = error and the backoff timer is started
TestSettle(c, ok) ==
  /\ initPc[c] = "test"
  /\ ok => Running(target[c])
  /\ IF ok
     THEN /\ result' = [result EXCEPT ![c] = thisBrowser]
          /\ initPc' = [initPc EXCEPT ![c] = "returned"]
          /\ UNCHANGED lastError
     ELSE /\ lastError' = [lastError EXCEPT ![c] = Some(VersionError(attempt[c]))]
          /\ initPc' = [initPc EXCEPT ![c] = "backoff"]
          /\ UNCHANGED result
  /\ target' = [target EXCEPT ![c] = Null]
  /\ UNCHANGED <<workVars, procVars, urlVars, adapterVars, keyVars, intakeVars, batchVars,
                 thisBrowser, engines, attempt, closePc, closeTarget>>

\* the timer of 2000 * (i + 1) ms fires: i++, and the loop goes on while
\* i < retries; after it, throw lastError
Backoff(c) ==
  /\ initPc[c] = "backoff"
  /\ attempt' = [attempt EXCEPT ![c] = attempt[c] + 1]
  /\ initPc' = [initPc EXCEPT ![c] = IF attempt[c] + 1 < retries THEN "launch" ELSE "threw"]
  /\ UNCHANGED <<workVars, procVars, urlVars, adapterVars, keyVars, intakeVars, batchVars,
                 thisBrowser, engines, lastError, target, result, closePc, closeTarget>>

\* closeBrowser(), called once by shutdown, up to await this.browser.close()
CloseBrowserCall ==
  /\ closePc = "idle"
  /\ IF thisBrowser # Null
     THEN closePc' = "closing" /\ closeTarget' = thisBrowser
     ELSE closePc' = "done" /\ UNCHANGED closeTarget
  /\ UNCHANGED <<workVars, procVars, urlVars, adapterVars, keyVars, intakeVars, batchVars,
                 thisBrowser, engines, initPc, attempt, lastError, target, result>>

\* await this.browser.close() settles: this.browser = null, or the rejection
\* leaves closeBrowser at once
CloseSettle(ok) ==
  /\ closePc = "closing"
  /\ IF ok
     THEN /\ engines' = [k \in DOMAIN engines |->
                          IF k \in closeTarget THEN "closed" ELSE engines[k]]
          /\ thisBrowser' = Null
     ELSE UNCHANGED <<engines, thisBrowser>>
  /\ closePc' = "done"
  /\ closeTarget' = Null
  /\ UNCHANGED <<workVars, procVars, urlVars, adapterVars, keyVars, intakeVars, batchVars,
                 initPc, attempt, lastError, target, result>>

\* Chromium crashes or its connection drops
EngineDies(e) ==
  /\ e \in DOMAIN engines
  /\ engines[e] = "running"
  /\ engines' = [engines EXCEPT ![e] = "dead"]
  /\ UNCHANGED <<workVars, procVars, urlVars, adapterVars, keyVars, intakeVars, batchVars,
                 thisBrowser, initPc, attempt, lastError, target, result, closePc,
                 closeTarget>>

LaunchNext ==
  \/ \E c \in Calls : InitBrowserCall(c)
  \/ \E c \in Calls, ok \in BOOLEAN : ProbeSettle(c, ok)
  \/ \E c \in Calls, ok \in BOOLEAN : LaunchSettle(c, ok)
  \/ \E c \in Calls, ok \in BOOLEAN : TestSettle(c, ok)
  \/ \E c \in Calls : Backoff(c)
  \/ CloseBrowserCall
  \/ \E ok \in BOOLEAN : CloseSettle(ok)
  \/ \E e \in 1..MaxEngines : EngineDies(e)

\* the service object on its own: no message is in play
ServiceInit == Init /\ body = "request" /\ table = EmptyTable

LaunchSpec == ServiceInit /\ [][LaunchNext]_vars

\* --------------------------------------------- the URL, message to page
Blank == " "
Pad(n) == [k \in 1..n |-> Blank]

Hosts == {<<"a", ".", "c", "o">>, <<"h", "t", "t", "p", "d", ".", "i", "o">>}

\* URLs a message can carry: a host, with or without a scheme, with blanks
\* around it; and the empty string
Urls ==
  {<<>>} \cup
  {Pad(l) \o scheme \o host \o Pad(t) :
     l \in 0..MaxPad, scheme \in {<<>>, Http, Https}, host \in Hosts, t \in 0..MaxPad}

\* String.prototype.startsWith
StartsWith(str, p) == MatchAt(str, 1, p)

\* String.prototype.trim
RECURSIVE TrimStart(_)
TrimStart(str) ==
  IF str # <<>> /\ Head(str) = Blank THEN TrimStart(Tail(str)) ELSE str

RECURSIVE TrimEnd(_)
TrimEnd(str) ==
  IF str # <<>> /\ str[Len(str)] = Blank THEN TrimEnd(SubSeq(str, 1, Len(str) - 1)) ELSE str

Trim(str) == TrimEnd(TrimStart(str))

\* body.url.trim(), with https:// in front unless it starts with http://
\* or https://: the enqueuer's normalisation, which the tests of
\* captureScreenshot expect of page.goto's argument too
NormalizedUrl(url) ==
  LET t == Trim(url)
  IN IF StartsWith(t, Http) \/ StartsWith(t, Https) THEN t ELSE Https \o t

\* the URL captureScreenshot passes to page.goto: options.url as it is
GotoArgument(url) == url

\* a producer sends a message with this url
SendMessage(url) ==
  /\ urlPc = "idle"
  /\ messageUrl' = Some(url)
  /\ urlPc' = "queued"
  /\ UNCHANGED <<workVars, procVars, launchVars, adapterVars, keyVars, intakeVars, batchVars,
                 gotoUrl>>

\* handleMessage: const { url, ... } = body; if (!url) throw; later
\* captureScreenshot({ url, ... }) is called
ExtractUrl ==
  /\ urlPc = "queued"
  /\ urlPc' = (IF messageUrl = Some(<<>>) THEN "rejected" ELSE "capturing")
  /\ UNCHANGED <<workVars, procVars, launchVars, adapterVars, keyVars, intakeVars, batchVars,
                 messageUrl, gotoUrl>>

\* captureScreenshot: await page.goto(url, {...})
Navigate ==
  /\ urlPc = "capturing"
  /\ gotoUrl' = {GotoArgument(u) : u \in messageUrl}
  /\ urlPc' = "navigated"
  /\ UNCHANGED <<workVars, procVars, launchVars, adapterVars, keyVars, intakeVars, batchVars,
                 messageUrl>>

UrlNext ==
  \/ \E url \in Urls : SendMessage(url)
  \/ ExtractUrl
  \/ Navigate

UrlSpec == ServiceInit /\ [][UrlNext]_vars

\* ------------------------------------------ DynamoDBService, called directly
ConditionalCheckFailedException == "ConditionalCheckFailedException"
OtherError == "Error"

SavedStatuses == {"processing", "success", "failed"}

\* saveScreenshotResult(data, { onlyIfNotExists }): the PutCommand is applied
\* and the call returns, or send() rejects (with
\* ConditionalCheckFailedException when the condition fails) and the catch
\* block rethrows
SaveCall(status, onlyIfNotExists, ok) ==
  /\ calls < MaxAdapterCalls
  /\ calls' = calls + 1
  /\ lastCall' = [op |-> "save", status |-> status, onlyIfNotExists |-> onlyIfNotExists]
  /\ IF ~ok
     THEN callError' = Some(OtherError) /\ UNCHANGED table
     ELSE /\ table' = SaveScreenshotResult(table, RequestId,
                        [ProcessingItem EXCEPT !.status = status], onlyIfNotExists, now)
          /\ callError' = (IF onlyIfNotExists /\ Exists(table, RequestId)
                           THEN Some(ConditionalCheckFailedException) ELSE Null)
  /\ UNCHANGED <<procVars, launchVars, urlVars, keyVars, intakeVars, batchVars, now, objects,
                 msgState, visibleAt, receiveCount, pc, existing, err, uploaded, rejected,
                 body>>

\* updateScreenshotStatus(screenshotId, status): the UpdateCommand is
\* applied, or send() rejects and the catch block rethrows
UpdateCall(status, ok) ==
  /\ calls < MaxAdapterCalls
  /\ calls' = calls + 1
  /\ lastCall' = [op |-> "update", status |-> status, onlyIfNotExists |-> FALSE]
  /\ IF ~ok
     THEN callError' = Some(OtherError) /\ UNCHANGED table
     ELSE /\ table' = UpdateScreenshotStatus(table, RequestId, status,
                        [s3Url |-> Null, s3Key |-> Null, errorMessage |-> Null], now)
          /\ callError' = Null
  /\ UNCHANGED <<procVars, launchVars, urlVars, keyVars, intakeVars, batchVars, now, objects,
                 msgState, visibleAt, receiveCount, pc, existing, err, uploaded, rejected,
                 body>>

AdapterNext ==
  \/ \E status \in SavedStatuses, onlyIfNotExists \in BOOLEAN, ok \in BOOLEAN :
       SaveCall(status, onlyIfNotExists, ok)
  \/ \E status \in SavedStatuses, ok \in BOOLEAN : UpdateCall(status, ok)
  \/ Tick

AdapterSpec == ServiceInit /\ [][AdapterNext]_vars

\* ------------------------------------- S3Service.generateScreenshotKey
\* a path whose query string carries another URL
Redirect == <<"/", "?", "u", "=">> \o Http \o <<"b", ".", "i", "o">>

\* a path longer than the sanitized part may get
LongPath == [k \in 1..(MaxSanitizedLen + 2) |-> IF k = 1 THEN "/" ELSE "p"]

\* URLs the key is derived from: a host with or without a scheme, followed by
\* nothing, by a query string that carries a URL, or by a long path
KeyUrls ==
  {scheme \o <<"a", ".", "c", "o">> \o path :
     scheme \in {<<>>, Http, Https}, path \in {<<>>, Redirect, LongPath}}

KeyIds == {RequestId, "r2"}
KeyFormats == {MessageFormat, "jpeg"}

\* generateScreenshotKey(url, screenshotId, format) is called and returns
GenerateKeyCall(url, screenshotId, format) ==
  /\ Cardinality(keyCalls) < MaxKeyCalls
  /\ keyCalls' = keyCalls \cup
       {[url |-> url, screenshotId |-> screenshotId, format |-> format, time |-> now,
         key |-> GenerateScreenshotKey(url, screenshotId, format, now)]}
  /\ UNCHANGED <<workVars, procVars, launchVars, urlVars, adapterVars, intakeVars, batchVars>>

KeyNext ==
  \/ \E url \in KeyUrls, screenshotId \in KeyIds, format \in KeyFormats :
       GenerateKeyCall(url, screenshotId, format)
  \/ Tick

KeySpec == ServiceInit /\ [][KeyNext]_vars

\* ------------------------------------------ createScreenshot (the enqueuer)
\* `Failed to queue message: ${sqsError.message}`
QueueErrorMessage == "Failed to queue message: SQS error"

BadRequest == 400
Created == 201
InternalError == 500

\* body.format of a request: undefined, or a string
RequestFormats == {Null, Some(MessageFormat), Some("jpeg"), Some("gif")}
DEFAULT_FORMAT == "png"

\* validateUrl: the url is required; on the URLs above, urlPattern fails
\* exactly on those that begin with a blank (blanks at the end match the path
\* part of the pattern)
ValidateUrl(url) == url # <<>> /\ Head(url) # Blank

\* PutCommand({ Item: dynamoDBItem }): status 'processing', s3Url, s3Key and
\* errorMessage null, createdAt = updatedAt = timestamp
PutItem(t, id, p) ==
  SaveScreenshotResult(t, id, [ProcessingItem EXCEPT !.format = Some(p.format)], FALSE,
                       p.timestamp)

\* validateRequest: the url is valid and format, when given, is png or jpeg
ValidateRequest(url, format) ==
  ValidateUrl(url) /\ format \subseteq {"png", "jpeg"}

\* UpdateCommand: SET #status = 'failed', errorMessage = :error,
\* updatedAt = :updatedAt
MarkQueueFailure(t, id, time) ==
  [i \in DOMAIN t \cup {id} |->
     IF i # id THEN t[i]
     ELSE IF Exists(t, id)
     THEN [t[id] EXCEPT !.status = "failed",
                        !.errorMessage = Some(QueueErrorMessage),
                        !.updatedAt = Some(time)]
     ELSE [status |-> "failed", s3Url |-> Null, s3Key |-> Null,
           errorMessage |-> Some(QueueErrorMessage), width |-> Null, height |-> Null,
           format |-> Null, createdAt |-> Null, updatedAt |-> Some(time)]]

\* exports.handler(event) up to its first await: the request is validated
\* (400), the url normalized, requestId = uuidv4(), and the PutCommand sent
CreateScreenshot(url, format) ==
  /\ createPc = "idle"
  /\ IF ValidateRequest(url, format)
     THEN /\ params' = Some([url |-> NormalizedUrl(url),
                             format |-> IF format = Null THEN DEFAULT_FORMAT
                                        ELSE CHOOSE f \in format : TRUE,
                             timestamp |-> now])
          /\ createPc' = "put"
          /\ UNCHANGED statusCode
     ELSE /\ statusCode' = Some(BadRequest)
          /\ createPc' = "responded"
          /\ UNCHANGED params
  /\ UNCHANGED <<workVars, procVars, launchVars, urlVars, adapterVars, keyVars, batchVars,
                 sqsMessage>>

\* Step 1: await dynamoDBDocClient.send(putCommand) settles; on a rejection
\* the handler answers 500, otherwise the SendMessageCommand is sent
PutSettle(ok) ==
  /\ createPc = "put"
  /\ IF ok
     THEN /\ \E p \in params : table' = PutItem(table, RequestId, p)
          /\ createPc' = "send"
          /\ UNCHANGED statusCode
     ELSE /\ statusCode' = Some(InternalError)
          /\ createPc' = "responded"
          /\ UNCHANGED table
  /\ UNCHANGED <<procVars, launchVars, urlVars, adapterVars, keyVars, batchVars, now,
                 objects, msgState, visibleAt, receiveCount, pc, existing, err, uploaded,
                 rejected, body, params, sqsMessage>>

\* Step 2: await sqsClient.send(sendCommand) settles: 201, or (catch) the
\* UpdateCommand that marks the record failed is sent
SendSettle(ok) ==
  /\ createPc = "send"
  /\ IF ok
     THEN /\ sqsMessage' = {[url |-> p.url, format |-> p.format, requestId |-> RequestId] :
                               p \in params}
          /\ statusCode' = Some(Created)
          /\ createPc' = "responded"
     ELSE /\ createPc' = "markFailed"
          /\ UNCHANGED <<sqsMessage, statusCode>>
  /\ UNCHANGED <<workVars, procVars, launchVars, urlVars, adapterVars, keyVars, batchVars,
                 params>>

\* the UpdateCommand of the catch block settles; its rejection is logged; the
\* handler answers 500
MarkFailedSettle(ok) ==
  /\ createPc = "markFailed"
  /\ table' = (IF ok THEN MarkQueueFailure(table, RequestId, now) ELSE table)
  /\ statusCode' = Some(InternalError)
  /\ createPc' = "responded"
  /\ UNCHANGED <<procVars, launchVars, urlVars, adapterVars, keyVars, batchVars, now,
                 objects, msgState, visibleAt, receiveCount, pc, existing, err, uploaded,
                 rejected, body, params, sqsMessage>>

IntakeNext ==
  \/ \E url \in Urls, format \in RequestFormats : CreateScreenshot(url, format)
  \/ \E ok \in BOOLEAN : PutSettle(ok)
  \/ \E ok \in BOOLEAN : SendSettle(ok)
  \/ \E ok \in BOOLEAN : MarkFailedSettle(ok)
  \/ Tick

IntakeSpec == ServiceInit /\ [][IntakeNext]_vars

\* --------------------------- handleMessage for messages of different requests
Digits == <<"1", "2", "3", "4", "5", "6", "7", "8", "9">>

\* body.requestId of message m: a UUID, so the ids are distinct strings of one
\* length; here a string is the sequence of its characters
RequestIdOf(m) == <<"r", Digits[m]>>

\* the key as the string the template literal builds:
\* `${prefix}${timestamp}/${screenshotId}_${sanitizedUrl}.${format}`, with the
\* prefix, the date and the format as one element each
KeyString(key) ==
  <<key[1], ToString(key[2]), "/">> \o key[3] \o <<"_">> \o key[4] \o <<".", key[5]>>

\* PutObjectCommand: the object under `key` is created or replaced
PutObject(b, key, m) == [k \in DOMAIN b \cup {key} |-> IF k = key THEN m ELSE b[k]]

BatchThrow(m, message) ==
  /\ batchErr' = [batchErr EXCEPT ![m] = Some(message)]
  /\ batchPc' = [batchPc EXCEPT ![m] = "catch"]

\* message m is sent, by the enqueuer (which has written the 'processing'
\* record) or by a producer that writes no record, and is delivered:
\* handleMessage(m) runs up to await getScreenshot(screenshotId)
Deliver(m, recorded) ==
  /\ batchPc[m] = "idle"
  /\ batchPc' = [batchPc EXCEPT ![m] = "get"]
  /\ table' = (IF recorded
               THEN SaveScreenshotResult(table, RequestIdOf(m), ProcessingItem, FALSE, now)
               ELSE table)
  /\ UNCHANGED <<procVars, launchVars, urlVars, adapterVars, keyVars, intakeVars, now, objects,
                 msgState, visibleAt, receiveCount, pc, existing, err, uploaded, rejected,
                 body, batchErr, batchKey, bucket>>

\* await getScreenshot(screenshotId) settles, and the branches on the item
GetScreenshotOf(m, ok) ==
  /\ batchPc[m] = "get"
  /\ IF ~ok
     THEN BatchThrow(m, DbErrorMessage)
     ELSE /\ batchPc' = [batchPc EXCEPT ![m] =
               IF ~Exists(table, RequestIdOf(m)) THEN "create"
               ELSE IF SkipsOnRead(table[RequestIdOf(m)], now) THEN "skipped"
               ELSE "claim"]
          /\ UNCHANGED batchErr
  /\ UNCHANGED <<workVars, procVars, launchVars, urlVars, adapterVars, keyVars, intakeVars,
                 batchKey, bucket>>

\* one record-store write of message m's invocation settles: the write is
\* applied and the invocation goes on to `next`, or it throws
WriteOf(m, at, ok, written, next) ==
  /\ batchPc[m] = at
  /\ IF ok
     THEN /\ table' = written
          /\ batchPc' = [batchPc EXCEPT ![m] = next]
          /\ UNCHANGED batchErr
     ELSE BatchThrow(m, DbErrorMessage) /\ UNCHANGED table
  /\ UNCHANGED <<procVars, launchVars, urlVars, adapterVars, keyVars, intakeVars, now, objects,
                 msgState, visibleAt, receiveCount, pc, existing, err, uploaded, rejected,
                 body, bucket>>

\* await saveScreenshotResult({... status: 'processing' ...})
FallbackCreateOf(m, ok) ==
  /\ WriteOf(m, "create", ok,
             SaveScreenshotResult(table, RequestIdOf(m), ProcessingItem, FALSE, now), "claim")
  /\ UNCHANGED batchKey

\* await updateScreenshotStatus(screenshotId, 'consumerProcessing', {...})
ClaimOf(m, ok) ==
  /\ WriteOf(m, "claim", ok,
             UpdateScreenshotStatus(table, RequestIdOf(m), "consumerProcessing",
                                    ClaimUpdates, now), "render")
  /\ UNCHANGED batchKey

\* await captureScreenshot({...})
RenderOf(m, ok) ==
  /\ batchPc[m] = "render"
  /\ IF ok
     THEN batchPc' = [batchPc EXCEPT ![m] = "upload"] /\ UNCHANGED batchErr
     ELSE BatchThrow(m, CHOOSE e \in RenderErrorMessages : e # "")
  /\ UNCHANGED <<workVars, procVars, launchVars, urlVars, adapterVars, keyVars, intakeVars,
                 batchKey, bucket>>

\* generateScreenshotKey(url, screenshotId, format); await uploadFile(...)
UploadOf(m, ok) ==
  /\ batchPc[m] = "upload"
  /\ IF ok
     THEN LET s3Key == KeyString(GenerateScreenshotKey(MessageUrl, RequestIdOf(m),
                                                       MessageFormat, now))
          IN /\ bucket' = PutObject(bucket, s3Key, m)
             /\ batchKey' = [batchKey EXCEPT ![m] = Some(s3Key)]
             /\ batchPc' = [batchPc EXCEPT ![m] = "finalize"]
             /\ UNCHANGED batchErr
     ELSE BatchThrow(m, UploadErrorMessage) /\ UNCHANGED <<bucket, batchKey>>
  /\ UNCHANGED <<workVars, procVars, launchVars, urlVars, adapterVars, keyVars, intakeVars>>

\* await updateScreenshotStatus(screenshotId, 'success', {s3Url, s3Key})
FinalizeOf(m, ok) ==
  /\ WriteOf(m, "finalize", ok,
             UpdateScreenshotStatus(table, RequestIdOf(m), "success",
                                    [s3Url |-> {S3Url(k) : k \in batchKey[m]},
                                     s3Key |-> batchKey[m], errorMessage |-> Null], now),
             "completed")
  /\ batchKey' = [batchKey EXCEPT ![m] = Null]

\* catch (error): await updateScreenshotStatus(id, 'failed', {errorMessage})
\* settles, its own failure is logged; throw error
CatchOf(m, ok) ==
  /\ batchPc[m] = "catch"
  /\ table' = (IF ok
               THEN UpdateScreenshotStatus(table, RequestIdOf(m), "failed",
                      [s3Url |-> Null, s3Key |-> Null, errorMessage |-> batchErr[m]], now)
               ELSE table)
  /\ batchPc' = [batchPc EXCEPT ![m] = "nacked"]
  /\ batchErr' = [batchErr EXCEPT ![m] = Null]
  /\ UNCHANGED <<procVars, launchVars, urlVars, adapterVars, keyVars, intakeVars, now, objects,
                 msgState, visibleAt, receiveCount, pc, existing, err, uploaded, rejected,
                 body, batchKey, bucket>>

BatchNext ==
  \/ \E m \in Batch, recorded \in BOOLEAN : Deliver(m, recorded)
  \/ \E m \in Batch, ok \in BOOLEAN : GetScreenshotOf(m, ok)
  \/ \E m \in Batch, ok \in BOOLEAN : FallbackCreateOf(m, ok)
  \/ \E m \in Batch, ok \in BOOLEAN : ClaimOf(m, ok)
  \/ \E m \in Batch, ok \in BOOLEAN : RenderOf(m, ok)
  \/ \E m \in Batch, ok \in BOOLEAN : UploadOf(m, ok)
  \/ \E m \in Batch, ok \in BOOLEAN : FinalizeOf(m, ok)
  \/ \E m \in Batch, ok \in BOOLEAN : CatchOf(m, ok)

\* the invocations of one batch run within seconds of each other: the clock
\* stands still
BatchSpec == ServiceInit /\ [][BatchNext]_vars

\* ---------------------------------------------------------------- claims
StatusOf(t) == IF Exists(t, RequestId) THEN t[RequestId].status ELSE "absent"

Terminal == {"success", "failed"}

\* the age of the item's claim at `time`, in ms, is more than T_stale
OlderThanTStale(item, time) ==
  \E u \in item.updatedAt : (time - u) * 1000 > maxProcessingTimeMs

\* invocation h takes a step that is not a failed read and not a crash
Proceeds(h) == pc'[h] \notin {pc[h], "catch", "crashed"}

\* C1: once the record of r is success, no step of any invocation changes its
\* status away from success or clears its s3Url/s3Key.
C1_NoLostSuccess ==
  [][StatusOf(table) = "success"
       => /\ StatusOf(table') = "success"
          /\ table'[RequestId].s3Url # Null
          /\ table'[RequestId].s3Key # Null]_vars

\* C2: with no crash and no record-store failure, every invocation ends
\* (skipped, completed or nacked) and, once the request's message (the body
\* the enqueuer sends, with url and requestId) has been delivered, the
\* record settles in success or failed.
C2_Convergence ==
  /\ \A h \in Handlers : (pc[h] \in Active) ~> (pc[h] \in {"skipped", "completed", "nacked"})
  /\ <>[]((body = "request" /\ \E h \in Handlers : pc[h] # "idle")
            => StatusOf(table) \in Terminal)

\* both deliveries were handled concurrently from an absent record and have
\* ended; the record is success
C2_Witness ==
  /\ \A h \in Handlers : pc[h] \in {"skipped", "completed", "nacked"}
  /\ \E h \in Handlers : pc[h] = "completed"
  /\ StatusOf(table) = "success"
  /\ table[RequestId].createdAt = Some(now)
  /\ receiveCount = 1

\* C3: the record is never left consumerProcessing with its message deleted
\* from the queue and no invocation working on it.
C3_NeverStuckClaimed ==
  ~(/\ StatusOf(table) = "consumerProcessing"
    /\ msgState = "deleted"
    /\ \A h \in Handlers : pc[h] \notin Active)

\* C4: every write to the stored record is processing -> consumerProcessing,
\* consumerProcessing -> success or failed, or consumerProcessing ->
\* consumerProcessing over a claim older than T_stale.
C4_MonotoneTransitions ==
  [][(table' # table /\ Exists(table, RequestId))
       => LET old == table[RequestId].status
              new == StatusOf(table')
          IN \/ old = "processing" /\ new = "consumerProcessing"
             \/ old = "consumerProcessing" /\ new \in Terminal
             \/ /\ old = "consumerProcessing" /\ new = "consumerProcessing"
                /\ OlderThanTStale(table[RequestId], now)]_vars

\* C5 as stated: once the record is failed, no step changes its status.
C5_FailedIsTerminal ==
  [][StatusOf(table) = "failed" => StatusOf(table') = "failed"]_vars

\* C5 as amended: an invocation that reads status failed does not skip, it
\* goes on to the claim; its claim write moves the record to
\* consumerProcessing and clears errorMessage, whatever the record held.
C5_FailedIsRetried ==
  [][\A h \in Handlers :
       /\ (pc[h] = "get" /\ Proceeds(h) /\ StatusOf(table) = "failed")
            => pc'[h] = "claim" /\ existing'[h] = Some("failed") /\ table' = table
       /\ (pc[h] = "claim" /\ existing[h] = Some("failed") /\ Proceeds(h))
            => /\ pc'[h] = "render"
               /\ StatusOf(table') = "consumerProcessing"
               /\ table'[RequestId].errorMessage = Null]_vars

\* an invocation read failed and is about to claim the record, which is
\* still failed
C5_Witness ==
  \E h \in Handlers :
    pc[h] = "claim" /\ existing[h] = Some("failed") /\ StatusOf(table) = "failed"

\* C6: an invocation that reads success, or consumerProcessing not older than
\* T_stale, ends there: the message is acked and neither the record nor the
\* object store is touched; it takes no further step.
C6_SkipAck ==
  [][\A h \in Handlers :
       /\ (/\ pc[h] = "get" /\ Proceeds(h)
           /\ \/ StatusOf(table) = "success"
              \/ /\ StatusOf(table) = "consumerProcessing"
                 /\ ~OlderThanTStale(table[RequestId], now))
            => /\ pc'[h] = "skipped"
               /\ table' = table
               /\ objects' = objects
               /\ msgState = "queued" => msgState' = "deleted"
       /\ pc[h] = "skipped" => pc'[h] = "skipped"]_vars

\* an invocation skipped a consumerProcessing record claimed exactly T_stale
\* ago and the message is gone
C6_Witness ==
  \E h \in Handlers :
    /\ pc[h] = "skipped"
    /\ StatusOf(table) = "consumerProcessing"
    /\ table[RequestId].updatedAt = Some(now - maxProcessingTimeMs \div 1000)
    /\ msgState = "deleted"

\* the steps of handleMessage whose failure C7 is about
RaisedInSteps3To5(h) ==
  pc[h] = "catch" /\ err[h] \subseteq RenderErrorMessages \cup {UploadErrorMessage}

\* C7 as stated: when an invocation returns Nack after its render or upload
\* raised, the record is failed and carries the error's message.
C7_FailedRecordOnNack ==
  [][\A h \in Handlers :
       (RaisedInSteps3To5(h) /\ pc'[h] = "nacked")
         => /\ StatusOf(table') = "failed"
            /\ table'[RequestId].errorMessage = err[h]]_vars

\* C7 as amended: the invocation returns Nack (the message stays in the
\* queue); its failure-path write, when it succeeds, sets status failed and
\* errorMessage to the error's message (null for an empty message); when
\* that write raises too, the record is left as it was.
C7_FailureNack ==
  [][\A h \in Handlers :
       /\ (pc[h] \in {"claim", "render", "upload", "finalize"} /\ pc'[h] = "catch")
            => err'[h] # Null /\ msgState' = msgState /\ table' = table
       /\ (pc[h] = "catch" /\ Proceeds(h))
            => /\ pc'[h] = "nacked"
               /\ msgState' = msgState
               /\ \/ table' = table
                  \/ /\ StatusOf(table') = "failed"
                     /\ table'[RequestId].errorMessage = err[h] \ {""}
                     /\ table'[RequestId].s3Key = Null
       /\ pc[h] = "nacked" => pc'[h] = "nacked"]_vars

\* an invocation whose upload failed has returned Nack; the record is failed
\* with the upload error's message and the message is still queued
C7_Witness ==
  \E h \in Handlers :
    /\ pc[h] = "nacked"
    /\ StatusOf(table) = "failed"
    /\ table[RequestId].errorMessage = Some(UploadErrorMessage)
    /\ msgState = "queued"

\* C8: an invocation that reads consumerProcessing older than T_stale goes on
\* to claim the record (refreshing updatedAt), then renders, then uploads;
\* when these succeed its last step writes success with the uploaded key and
\* the message is acked.
C8_StaleTakeover ==
  [][\A h \in Handlers :
       /\ (/\ pc[h] = "get" /\ Proceeds(h)
           /\ StatusOf(table) = "consumerProcessing"
           /\ OlderThanTStale(table[RequestId], now))
            => pc'[h] = "claim" /\ existing'[h] = Some("consumerProcessing")
       /\ (pc[h] = "claim" /\ Proceeds(h))
            => /\ pc'[h] = "render"
               /\ StatusOf(table') = "consumerProcessing"
               /\ table'[RequestId].updatedAt = Some(now)
       /\ (pc[h] = "render" /\ Proceeds(h)) => pc'[h] = "upload"
       /\ (pc[h] = "upload" /\ Proceeds(h))
            => pc'[h] = "finalize" /\ uploaded'[h] # Null /\ uploaded'[h] \subseteq objects'
       /\ (pc[h] = "finalize" /\ Proceeds(h))
            => /\ pc'[h] = "completed"
               /\ StatusOf(table') = "success"
               /\ table'[RequestId].s3Key = uploaded[h]
               /\ msgState = "queued" => msgState' = "deleted"]_vars

\* an invocation read a stale consumerProcessing record and is about to take
\* it over
C8_Witness ==
  \E h \in Handlers :
    /\ pc[h] = "claim"
    /\ existing[h] = Some("consumerProcessing")
    /\ StatusOf(table) = "consumerProcessing"
    /\ OlderThanTStale(table[RequestId], now)

\* C9 as stated: at most one object exists in the store for the request.
C9_SingleObject == Cardinality(objects) <= 1

\* C9 as amended: uploads for the same message made on the same UTC date
\* target the same key, so the store holds at most one object of the request
\* per UTC date of upload.
C9_OneObjectPerDate ==
  \A k1, k2 \in objects : (k1[2] = k2[2] /\ k1[3] = k2[3]) => k1 = k2

\* two invocations have uploaded under the same key and the store holds one
\* object
C9_Witness ==
  /\ \E g, h \in Handlers :
       g # h /\ pc[g] = "finalize" /\ pc[h] = "finalize" /\ uploaded[g] = uploaded[h]
  /\ Cardinality(objects) = 1

\* C10: a fallback create that finds the record present leaves it as it is.
C10_CreateKeepsExisting ==
  [][\A h \in Handlers :
       (pc[h] = "create" /\ pc'[h] = "claim" /\ Exists(table, RequestId))
         => table' = table]_vars

\* C11: of the workers that observed the record of r absent, only one gets
\* past the create; no two of them stand before the claim (existing is unset
\* there only on the path through the fallback create), about to capture.
C11_OneWinner ==
  \A g, h \in Handlers :
    (/\ pc[g] = "claim" /\ existing[g] = Null
     /\ pc[h] = "claim" /\ existing[h] = Null) => g = h

\* C12: in every state of the record store, s3Url and s3Key of a record are
\* non-null exactly when its status is success.
C12_KeyIffSuccess ==
  \A id \in DOMAIN table :
    /\ table[id].s3Url # Null <=> table[id].status = "success"
    /\ table[id].s3Key # Null <=> table[id].status = "success"

\* an invocation completed (the record was success with its key) and a later
\* write of another invocation has since replaced the status and the key
C12_Witness ==
  /\ \E h \in Handlers : pc[h] = "completed"
  /\ StatusOf(table) = "failed"
  /\ table[RequestId].s3Key = Null
  /\ objects # {}

\* C13: in every state of the record store, errorMessage of a record is
\* non-null exactly when its status is failed.
C13_MessageIffFailed ==
  \A id \in DOMAIN table :
    table[id].errorMessage # Null <=> table[id].status = "failed"

\* C14: every stored record has createdAt and updatedAt, and updatedAt is not
\* before createdAt.
C14_Timestamps ==
  \A id \in DOMAIN table :
    /\ table[id].createdAt # Null
    /\ table[id].updatedAt # Null
    /\ \A c \in table[id].createdAt, u \in table[id].updatedAt : u >= c

\* C15: an invocation for a body that is not JSON, has no url or has no
\* requestId ends in Nack at once, before any call to the record store, the
\* renderer or the object store; the stores and the message are untouched.
C15_MalformedNack ==
  [][\A h \in Handlers :
       (body # "request" /\ pc[h] = "idle" /\ pc'[h] # "idle")
         => /\ pc'[h] = "nacked"
            /\ table' = table
            /\ objects' = objects
            /\ msgState' = msgState]_vars

\* C16: the catch block rejects with the error it caught, whether or not its
\* write of failed succeeds, and the message is not acked.
C16_PrimaryErrorKept ==
  [][\A h \in Handlers :
       (pc[h] = "catch" /\ pc'[h] = "nacked")
         => /\ err[h] # Null
            /\ rejected' = err[h]
            /\ msgState' = msgState]_vars

\* the upload failed, the write of failed failed too (the record is still the
\* invocation's own claim), and the invocation rejected with the upload error
C16_Witness ==
  \E h \in Handlers :
    /\ pc[h] = "nacked"
    /\ rejected = Some(UploadErrorMessage)
    /\ StatusOf(table) = "consumerProcessing"
    /\ \A g \in Handlers \ {h} : pc[g] = "idle"
    /\ msgState = "queued"

\* C17: the process starts closing the browser, and exits, only when no
\* handleMessage invocation is in flight.
C17_WaitsForInFlight ==
  [][(\/ browser # "closing" /\ browser' = "closing"
      \/ exitCode = Null /\ exitCode' # Null)
       => handlePc = "none"]_vars

\* C18: once shutdown has handled the signal the consumer is not running and
\* no handleMessage invocation starts; the browser is closed after the
\* consumer was stopped, and the shutdown ends in exit code 0 unless closing
\* the browser threw.
C18_ShutdownOrder ==
  [][/\ isShuttingDown' => consumer' # "running"
     /\ (isShuttingDown /\ handlePc = "none") => handlePc' = "none"
     /\ (shutdownPc = "healthStop" /\ shutdownPc' = "closeBrowser") => consumer # "running"
     /\ (shutdownPc = "closeBrowser" /\ shutdownPc' = "done")
          => exitCode' \in {Some(0), Some(1)}]_vars

\* C19: the consumer is created and started only by startService after the
\* health server has listened and with the browser launched; when the health
\* server or the launch fails the process exits with code 1 with no
\* consumer, no poll and no invocation, and nothing happens after the exit.
C19_StartupOrder ==
  [][/\ (consumer = "null" /\ consumer' # "null")
          => /\ startPc = "initBrowser"
             /\ healthCheck \in {"listening", "closed"}
             /\ browser' = "launched"
             /\ consumer' = "running"
     /\ (startPc # "exited" /\ startPc' = "exited")
          => /\ exitCode' = Some(1)
             /\ consumer' = "null"
             /\ ~polling'
             /\ handlePc' = "none"
     /\ startPc = "exited" => UNCHANGED procVars]_vars

\* the health server listened, the launch failed, and the process has exited
\* with code 1 without a consumer
C19_Witness ==
  /\ startPc = "exited"
  /\ healthCheck = "listening"
  /\ exitCode = Some(1)
  /\ consumer = "null"

\* C20: when captureScreenshot leaves its finally block the page is closed,
\* and it rejects with the error its try block caught, or returns if it
\* caught none.
C20_PageClosed ==
  [][(handlePc = "close" /\ handlePc' = "post")
       => pageOpen' = FALSE /\ thrown' = pageErr]_vars

\* C21: a call of initBrowser whose probe succeeds returns the engine it
\* probed and launches nothing; one whose probe fails drops the handle and
\* returns only after a launch and a version test of its own.
C21_ProbeBeforeRender ==
  [][\A c \in Calls :
       /\ (initPc[c] = "probe" /\ initPc'[c] = "returned")
            => (result'[c] = target[c] /\ engines' = engines)
       /\ (initPc[c] = "probe" /\ initPc'[c] # "probe")
            => (initPc'[c] = "returned" \/ (initPc'[c] = "launch" /\ thisBrowser' = Null))
       /\ (initPc[c] \in {"launch", "backoff"}) => initPc'[c] # "returned"]_vars

\* C22: a call that found no live handle launches at most `retries` times,
\* returns the engine of its first attempt that launched and answered
\* version(), and throws the error of its last attempt when all failed.
C22_BoundedLaunch ==
  [][\A c \in Calls :
       /\ initPc[c] = "launch" => attempt[c] < retries
       /\ (initPc[c] = "test" /\ initPc'[c] = "returned") => result'[c] = target[c]
       /\ (initPc[c] # "threw" /\ initPc'[c] = "threw")
            => /\ attempt'[c] = retries
               /\ lastError'[c] \in {Some(LaunchError(retries - 1)),
                                     Some(VersionError(retries - 1))}]_vars

\* C24: every engine that runs is the one this.browser refers to, so at
\* most one engine runs at a time.
C24_SingletonEngine ==
  \A k \in DOMAIN engines : engines[k] = "running" => thisBrowser = Some(k)

\* C23: when initBrowser has used up its launch attempts the process exits
\* with a non-zero code: startService does not go on, and a handleMessage
\* invocation whose render hit the failure does not simply end.
C23_LaunchFailureFatal ==
  [][/\ (startPc = "initBrowser" /\ startPc' = "exited") => exitCode' = Some(1)
     /\ (handlePc = "post" /\ thrown = Some(LaunchErrorMessage) /\ handlePc' # "post")
          => (exitCode' # Null /\ exitCode' # Some(0))]_vars

\* C25: the URL captureScreenshot navigates to is the message's URL trimmed,
\* with https:// in front unless it starts with http:// or https://.
C25_UrlNormalized ==
  urlPc = "navigated" => gotoUrl = {NormalizedUrl(u) : u \in messageUrl}

\* C26: an invocation is sent to its catch block by a failed record-store
\* call (read, create, claim or final write) only when the call was sent
\* again after its first failure.
C26_RetryInPlace ==
  [][\A h \in Handlers :
       (/\ pc[h] \in {"get", "create", "claim", "finalize"}
        /\ pc'[h] = "catch"
        /\ err'[h] = Some(DbErrorMessage))
         => SendsPerCall > 1]_vars

\* C27: an invocation is sent to its catch block by a failed capture only
\* when maxRetries captures were attempted.
C27_CaptureRetry ==
  [][\A h \in Handlers :
       (pc[h] = "render" /\ pc'[h] = "catch") => CapturesPerInvocation >= maxRetries]_vars

\* C28: the message is received at most maxReceiveCount times and reaches
\* the dead-letter queue only after that many receives; when every
\* invocation run for it has failed and left its record failed, the record
\* carries an error message.
C28_DeadLetter ==
  /\ receiveCount <= maxReceiveCount
  /\ msgState = "dlq" => receiveCount = maxReceiveCount
  /\ (/\ msgState = "dlq"
      /\ body = "request"
      /\ \A h \in Handlers : pc[h] = "nacked"
      /\ StatusOf(table) = "failed")
       => table[RequestId].errorMessage # Null

\* C30: when the claim write of an invocation has been applied, the record's
\* width, height and format are those of the message, with the configured
\* default for the one the message leaves out.
C30_ClaimAppliesPatch ==
  [][\A h \in Handlers :
       (pc[h] = "claim" /\ pc'[h] = "render")
         => /\ table'[RequestId].width = ClaimUpdates.width
            /\ table'[RequestId].height = ClaimUpdates.height
            /\ table'[RequestId].format = ClaimUpdates.format]_vars

\* C29: a call of saveScreenshotResult with onlyIfNotExists, made when the
\* record exists, throws and leaves the table as it was, and what it throws
\* is ConditionalCheckFailedException unless the request itself failed; made
\* when no record exists, it inserts the item if it returns.
C29_ConditionalCreate ==
  [][(calls' = calls + 1 /\ lastCall'.op = "save" /\ lastCall'.onlyIfNotExists)
       => IF Exists(table, RequestId)
          THEN /\ table' = table
               /\ callError' \in {Some(ConditionalCheckFailedException), Some(OtherError)}
          ELSE /\ callError' # Some(ConditionalCheckFailedException)
               /\ callError' = Null
                    => (Exists(table', RequestId)
                        /\ table'[RequestId].status = lastCall'.status)]_vars

\* a conditional save of another status was refused and the record kept
C29_Witness ==
  /\ lastCall.op = "save"
  /\ lastCall.onlyIfNotExists
  /\ callError = Some(ConditionalCheckFailedException)
  /\ Exists(table, RequestId)
  /\ table[RequestId].status # lastCall.status

\* the URL without its scheme: what follows a leading http:// or https://
WithoutScheme(url) ==
  IF StartsWith(url, Https) THEN SubSeq(url, Len(Https) + 1, Len(url))
  ELSE IF StartsWith(url, Http) THEN SubSeq(url, Len(Http) + 1, Len(url))
  ELSE url

\* C31: every key returned is screenshots/<UTC date of the call>/<id>_<s>.<format>
\* where s is the URL without its scheme, cut to 50 characters, each of them
\* kept when alphanumeric and '_' otherwise; two calls with equal url, id,
\* format and date return equal keys.
C31_KeyDerivation ==
  /\ \A c \in keyCalls :
       LET w == WithoutScheme(c.url)
           s == c.key[4]
       IN /\ Len(c.key) = 5
          /\ c.key[1] = "screenshots/"
          /\ c.key[2] = c.time \div SecondsPerDay
          /\ c.key[3] = c.screenshotId
          /\ c.key[5] = c.format
          /\ Len(s) = (IF Len(w) < MaxSanitizedLen THEN Len(w) ELSE MaxSanitizedLen)
          /\ \A i \in 1..Len(s) : s[i] = (IF w[i] \in Alnum THEN w[i] ELSE "_")
  /\ \A c, d \in keyCalls :
       (/\ c.url = d.url /\ c.screenshotId = d.screenshotId /\ c.format = d.format
        /\ c.time \div SecondsPerDay = d.time \div SecondsPerDay) => c.key = d.key

\* C32: in the intake endpoint the record write and the enqueue both take
\* effect or neither does: a message is in the queue only if the record has
\* been written, and once the handler has answered, the record of the
\* generated requestId exists exactly when the message was accepted.
C32_EnqueueAtomic ==
  /\ sqsMessage # Null => Exists(table, RequestId)
  /\ createPc = "responded" => (Exists(table, RequestId) <=> sqsMessage # Null)

\* updatedAt || createdAt of the item
ClaimedSince(item) == IF item.updatedAt # Null THEN item.updatedAt ELSE item.createdAt

\* C33: a delivery that reads a consumerProcessing record takes it as stale
\* only when its age, measured from updatedAt or else createdAt, is strictly
\* more than 10 minutes; otherwise, also at exactly 10 minutes, it skips and
\* the message is acked.
C33_StaleBoundary ==
  [][\A h \in Handlers :
       (pc[h] = "get" /\ Proceeds(h) /\ StatusOf(table) = "consumerProcessing")
         => IF \E t \in ClaimedSince(table[RequestId]) :
                 (now - t) * 1000 > maxProcessingTimeMs
            THEN pc'[h] = "claim"
            ELSE /\ pc'[h] = "skipped"
                 /\ msgState = "queued" => msgState' = "deleted"
                 /\ table' = table]_vars

\* a delivery skipped a record that has no updatedAt and was created exactly
\* 10 minutes before, and the message has been deleted
C33_Witness ==
  \E h \in Handlers :
    /\ pc[h] = "skipped"
    /\ StatusOf(table) = "consumerProcessing"
    /\ table[RequestId].updatedAt = Null
    /\ table[RequestId].createdAt = Some(now - maxProcessingTimeMs \div 1000)
    /\ msgState = "deleted"

\* C34: every claim write, a stale takeover included, leaves the record
\* consumerProcessing with updatedAt set to the time of the claim; and a
\* delivery that reads the record while it is consumerProcessing and less
\* than T_stale has passed since that time skips, it does not claim again.
C34_ClaimRefreshes ==
  [][\A h \in Handlers :
       /\ (pc[h] = "claim" /\ Proceeds(h))
            => /\ StatusOf(table') = "consumerProcessing"
               /\ table'[RequestId].updatedAt = Some(now)
       /\ (/\ pc[h] = "get" /\ Proceeds(h)
           /\ StatusOf(table) = "consumerProcessing"
           /\ \E t \in table[RequestId].updatedAt : (now - t) * 1000 < maxProcessingTimeMs)
            => pc'[h] = "skipped" /\ table' = table]_vars

\* the first delivery found the record stale and took it over just now; the
\* second delivery, received at this same instant (after the takeover, or it
\* would have found the record stale too), has skipped
C34_Witness ==
  /\ pc[1] = "render"
  /\ pc[2] = "skipped"
  /\ StatusOf(table) = "consumerProcessing"
  /\ table[RequestId].updatedAt = Some(now)
  /\ now > StartTime
  /\ receiveCount = 2
  /\ visibleAt = now + visibilityTimeout

\* statuses a delivery goes on from in the same way
Retriable == {"failed", "processing"}

\* C35: a delivery that reads status failed is handled as one that reads
\* processing: it does not skip or ack, its read changes nothing, its claim
\* write leaves the record consumerProcessing with errorMessage cleared, and
\* the render follows.
C35_FailedRetried ==
  [][\A h \in Handlers :
       /\ (pc[h] = "get" /\ Proceeds(h) /\ StatusOf(table) \in Retriable)
            => /\ pc'[h] = "claim"
               /\ existing'[h] = Some(StatusOf(table))
               /\ msgState' = msgState
               /\ table' = table
               /\ objects' = objects
       /\ (pc[h] = "claim" /\ existing[h] \subseteq Retriable /\ Proceeds(h))
            => /\ pc'[h] = "render"
               /\ StatusOf(table') = "consumerProcessing"
               /\ table'[RequestId].errorMessage = Null
               /\ table'[RequestId].createdAt = table[RequestId].createdAt
               /\ msgState' = msgState]_vars

\* the first delivery failed and returned Nack with the record failed; the
\* message was received a second time and that delivery, having read failed,
\* stands before its claim write
C35_Witness ==
  /\ pc[1] = "nacked"
  /\ pc[2] = "claim"
  /\ existing[2] = Some("failed")
  /\ receiveCount = 2
  /\ StatusOf(table) = "failed"
  /\ table[RequestId].errorMessage # Null

\* invocation h takes the step
Steps(h) == pc'[h] # pc[h]

\* C36: within one invocation the create is issued only when the read found
\* no record; the render starts only on the step that writes
\* consumerProcessing, the upload only after the render, the success write
\* only after the upload, and the invocation completes on its success write;
\* the read, the render and the upload write nothing to the record.
C36_StepOrder ==
  [][\A h \in Handlers :
       Steps(h) =>
         /\ pc'[h] = "create" => pc[h] = "get" /\ ~Exists(table, RequestId)
         /\ pc'[h] = "claim" => pc[h] \in {"get", "create"}
         /\ pc'[h] = "render"
              => pc[h] = "claim" /\ StatusOf(table') = "consumerProcessing"
         /\ pc'[h] = "upload" => pc[h] = "render"
         /\ pc'[h] = "finalize"
              => pc[h] = "upload" /\ uploaded'[h] # Null /\ uploaded'[h] \subseteq objects'
         /\ pc'[h] = "completed"
              => /\ pc[h] = "finalize"
                 /\ StatusOf(table') = "success"
                 /\ table'[RequestId].s3Key = uploaded[h]
         /\ pc[h] \in {"get", "render", "upload"} => table' = table
         /\ pc[h] \notin {"upload"} => objects' = objects]_vars

\* no create was ever issued (the record, made by a failure write of the
\* first delivery, has no createdAt); the second delivery found it and has
\* completed with the record success
C36_Witness ==
  /\ pc[1] = "nacked"
  /\ pc[2] = "completed"
  /\ StatusOf(table) = "success"
  /\ table[RequestId].createdAt = Null
  /\ table[RequestId].s3Key \subseteq objects
  /\ table[RequestId].s3Key # Null

\* C37: in every reachable state a record whose status is success names a
\* key, and the object store holds an object under exactly that key.
C37_SuccessHasObject ==
  \A id \in DOMAIN table :
    table[id].status = "success"
      => table[id].s3Key # Null /\ table[id].s3Key \subseteq objects

\* two concurrent invocations uploaded on either side of midnight and both
\* completed: the store holds two objects and the record names one of them
C37_Witness ==
  /\ \A h \in Handlers : pc[h] = "completed"
  /\ StatusOf(table) = "success"
  /\ Cardinality(objects) = 2
  /\ \E k \in objects : table[RequestId].s3Key = Some(k)

\* the string `sub` occurs in `str`
Contains(str, sub) == \E i \in 1..Len(str) : MatchAt(str, i, sub)

\* C38: a step of the invocation for request r changes no record but r's, and
\* no object but under a key that contains r; the record of every other
\* request and every object another request's invocation stored stay as they
\* were, also while invocations of different requests are under way together.
C38_RequestIsolation ==
  [][\A m \in Batch :
       batchPc'[m] # batchPc[m] =>
         /\ \A id \in (DOMAIN table \cup DOMAIN table') \ {RequestIdOf(m)} :
              id \in DOMAIN table /\ id \in DOMAIN table' /\ table'[id] = table[id]
         /\ \A k \in DOMAIN bucket \cup DOMAIN bucket' :
              \/ k \in DOMAIN bucket /\ k \in DOMAIN bucket' /\ bucket'[k] = bucket[k]
              \/ /\ Contains(k, RequestIdOf(m))
                 /\ k \in DOMAIN bucket => bucket[k] = m
                 /\ bucket'[k] = m]_vars

\* two invocations of different requests are between their claim and their
\* last write at once, and each has stored its object
C38_Witness ==
  /\ batchPc[1] = "finalize"
  /\ batchPc[2] = "finalize"
  /\ batchKey[1] # batchKey[2]
  /\ \A m \in {1, 2} : \E k \in batchKey[m] : k \in DOMAIN bucket /\ bucket[k] = m
  /\ \A m \in {1, 2} : table[RequestIdOf(m)].status = "consumerProcessing"

\* C39: when a delivery was acked because it read a fresh consumerProcessing
\* record (no invocation ever completed, so no skip was on success) and the
\* owning invocation has failed, the message is still in the queue or in the
\* DLQ: the request is not left failed with its message deleted.
C39_SkipKeepsBudget ==
  (/\ \E h \in Handlers : pc[h] = "skipped"
   /\ \E h \in Handlers : pc[h] = "nacked"
   /\ \A h \in Handlers : pc[h] \notin Active \cup {"completed"}
   /\ body = "request"
   /\ StatusOf(table) = "failed")
    => msgState \in {"queued", "dlq"}

\* the stages of shutdown, in order
ShutdownStages == <<"idle", "healthStop", "closeBrowser", "done">>
StageOf(p) == CHOOSE k \in 1..Len(ShutdownStages) : ShutdownStages[k] = p

\* C40: while a shutdown is in progress no step, and so no further SIGTERM,
\* SIGINT, uncaughtException or unhandledRejection, starts its sequence
\* again: the flag stays set, the stage only advances by one, the consumer
\* is not stopped a second time and an exit code, once set, stays.
C40_ShutdownOnce ==
  [][isShuttingDown
       => /\ isShuttingDown'
          /\ StageOf(shutdownPc') \in {StageOf(shutdownPc), StageOf(shutdownPc) + 1}
          /\ (signals' # signals)
               => shutdownPc' = shutdownPc /\ consumer' = consumer /\ browser' = browser
                  /\ healthCheck' = healthCheck /\ exitCode' = exitCode
          /\ exitCode # Null => exitCode' = exitCode]_vars

\* a second event has arrived while the shutdown was waiting for the
\* browser to close
C40_Witness ==
  /\ isShuttingDown
  /\ signals = 2
  /\ shutdownPc = "closeBrowser"
  /\ browser = "closing"
  /\ exitCode = Null

====
